---- MODULE Spec2Model ----
(***************************************************************************)
(* Model of the DataNarrative reasoning pipeline (pengine).                 *)
(*                                                                         *)
(*   core/intelligence/reasoning.py   ReasoningEngine (orchestrator)        *)
(*   core/intelligence/analyzer.py    QueryAnalyzer                         *)
(*   core/intelligence/narrator.py    NarrativeGenerator                    *)
(*   core/knowledge/retriever.py      Retriever                             *)
(*   core/knowledge/store.py          KnowledgeStore                        *)
(*                                                                         *)
(* Conventions.                                                            *)
(*  - Optional[T] is a sequence of length at most one: None is << >> and a  *)
(*    present value v is <<v>>.                                             *)
(*  - Floats in [-1, 1] (relevance, confidence) are integers in hundredths; *)
(*    overall_confidence is an integer in ten-thousandths, so that the      *)
(*    products 0.4 * c and 0.3 * c of the code are exact.                   *)
(*  - A query text is represented by what the analyzer's regular            *)
(*    expressions and substring tests see in it: the number of matching     *)
(*    patterns per intent, the years found, and the vocabulary substrings   *)
(*    it contains.                                                          *)
(***************************************************************************)
EXTENDS Integers, Sequences, FiniteSets, TLC

None == << >>
Some(v) == <<v>>

Range(s) == {s[i] : i \in DOMAIN s}

Min2(a, b) == IF a <= b THEN a ELSE b

\* Python's str(bool), used by f-strings and by _chunk_to_metadata.
PyStr(b) == IF b THEN "True" ELSE "False"

\* Python's f"{x}" of an Optional[str].
PyStrOpt(o) == IF o = None THEN "None" ELSE o[1]

---------------------------------------------------------------------------
(* Bounds of the model *)

\* longest text given to the normalizer
MaxText == 3

\* largest number of chunks held by the knowledge store
MaxChunks == 2

\* number of concurrent reason() calls in the concurrent specification
NCalls == 2

\* longest insight list handed to the stages after mining
MaxInsights == 2

\* longest row list drawn from the sample rows for detect_from_data
MaxRows == 3

---------------------------------------------------------------------------
(* analyzer.py *)

\* QueryIntent, in declaration order.
QueryIntent == <<"trend", "comparison", "ranking", "current", "breakdown",
                 "correlation", "anomaly", "general">>

\* INTENT_PATTERNS: the intents that have patterns, in dictionary order, and
\* the number of patterns of each.
INTENT_PATTERNS == <<"trend", "comparison", "ranking", "current", "breakdown",
                     "correlation", "anomaly">>

NumPatterns(intent) == 2

\* DOMAIN_KEYWORDS restricted to the keywords of the model's vocabulary, in
\* dictionary and list order.
DOMAIN_KEYWORDS == << [domain |-> "education", keywords |-> <<"school", "literacy">>],
                      [domain |-> "economy",   keywords |-> <<"income", "growth">>],
                      [domain |-> "health",    keywords |-> <<"hospital">>] >>

\* The change vocabulary tested by analyze() on the normalized text.
ChangeWords == {"change", "trend", "over time", "growth", "decline"}

NoMatch == [i \in Range(INTENT_PATTERNS) |-> 0]

\* The sample queries.  matches[i] is the number of patterns of intent i that
\* match the normalized text, years the years re.findall finds in the text,
\* found the vocabulary substrings of the normalized text.
Q_trend   == [text |-> "How has literacy changed in Telangana?",
              matches |-> [NoMatch EXCEPT !["trend"] = 1],
              years |-> << >>, found |-> {"literacy", "change"}]
Q_ranking == [text |-> "Which district has the highest literacy rate?",
              matches |-> [NoMatch EXCEPT !["ranking"] = 2],
              years |-> << >>, found |-> {"literacy"}]
Q_growth  == [text |-> "Show economic growth figures",
              matches |-> NoMatch,
              years |-> << >>, found |-> {"growth"}]
Q_compare == [text |-> "Compare income 2015 vs 2023",
              matches |-> [NoMatch EXCEPT !["comparison"] = 1],
              years |-> <<"2015", "2023">>, found |-> {"income"}]
Q_current == [text |-> "What is the current state of schools?",
              matches |-> [NoMatch EXCEPT !["current"] = 2],
              years |-> << >>, found |-> {"school"}]
Q_plain   == [text |-> "beds",
              matches |-> NoMatch,
              years |-> << >>, found |-> {}]

Queries == {Q_trend, Q_ranking, Q_growth, Q_compare, Q_current, Q_plain}

\* A year written twice, and a text with a change word inside another word.
Q_repeat   == [text |-> "Literacy in 2015 and again in 2015",
               matches |-> NoMatch,
               years |-> <<"2015", "2015">>, found |-> {"literacy"}]
Q_exchange == [text |-> "Show exchange rates",
               matches |-> NoMatch,
               years |-> << >>, found |-> {"change"}]

\* Texts on which two intents match equally often, and one on which a later
\* intent matches more often than an earlier one.
Q_tie   == [text |-> "Compare the change in literacy",
            matches |-> [NoMatch EXCEPT !["trend"] = 1, !["comparison"] = 1],
            years |-> << >>, found |-> {"literacy", "change"}]
Q_later == [text |-> "Which district has the highest income change?",
            matches |-> [NoMatch EXCEPT !["trend"] = 1, !["ranking"] = 2],
            years |-> << >>, found |-> {"income", "change"}]

\* Texts of fewer than 3 characters: no pattern, year or keyword is found in
\* them, and analyze returns the general intent for both.
Q_empty == [text |-> "", matches |-> NoMatch, years |-> << >>, found |-> {}]
Q_short == [text |-> "hi", matches |-> NoMatch, years |-> << >>, found |-> {}]

\* (mutant) of the intents with the greatest score the last one is kept
RECURSIVE FirstMax_last(_, _, _, _)
FirstMax_last(s, score, i, best) ==
    IF i > Len(s) THEN best
    ELSE IF score[s[i]] > 0 /\ (best = 0 \/ score[s[i]] >= score[s[best]])
         THEN FirstMax_last(s, score, i + 1, i)
         ELSE FirstMax_last(s, score, i + 1, best)

\* first position of s, from position i on, whose score is the maximum: max()
\* over a dict returns the first key, in insertion order, with the greatest value
RECURSIVE FirstMax(_, _, _, _)
FirstMax(s, score, i, best) ==
    IF i > Len(s) THEN best
    ELSE IF score[s[i]] > 0 /\ (best = 0 \/ score[s[i]] > score[s[best]])
         THEN FirstMax(s, score, i + 1, i)
         ELSE FirstMax(s, score, i + 1, best)

\* _detect_intent: <<intent, confidence in hundredths>>
_detect_intent(q) ==
    LET best == FirstMax(INTENT_PATTERNS, q.matches, 1, 0)
    IN  IF best = 0 THEN <<"general", 50>>
        ELSE LET intent == INTENT_PATTERNS[best]
             IN  <<intent, Min2((q.matches[intent] * 100) \div NumPatterns(intent), 100)>>

RECURSIVE AppendFound(_, _, _, _)
AppendFound(kws, i, found, topics) ==
    IF i > Len(kws) THEN topics
    ELSE IF kws[i] \in found /\ kws[i] \notin Range(topics)
         THEN AppendFound(kws, i + 1, found, Append(topics, kws[i]))
         ELSE AppendFound(kws, i + 1, found, topics)

RECURSIVE TopicsFrom(_, _, _)
TopicsFrom(d, found, topics) ==
    IF d > Len(DOMAIN_KEYWORDS) THEN topics
    ELSE TopicsFrom(d + 1, found, AppendFound(DOMAIN_KEYWORDS[d].keywords, 1, found, topics))

\* _extract_topics: the keywords found, in table order, at most five of them
_extract_topics(q) ==
    LET all == TopicsFrom(1, q.found, << >>)
    IN  SubSeq(all, 1, Min2(Len(all), 5))

DomainScore(d, found, topics) ==
    Cardinality({k \in Range(DOMAIN_KEYWORDS[d].keywords) : k \in found \/ k \in Range(topics)})

RECURSIVE BestDomain(_, _, _, _)
BestDomain(d, found, topics, best) ==
    IF d > Len(DOMAIN_KEYWORDS) THEN best
    ELSE IF DomainScore(d, found, topics) > 0
            /\ (best = 0 \/ DomainScore(d, found, topics) > DomainScore(best, found, topics))
         THEN BestDomain(d + 1, found, topics, d)
         ELSE BestDomain(d + 1, found, topics, best)

\* _infer_domain: Optional[str]
_infer_domain(q, topics) ==
    LET best == BestDomain(1, q.found, topics, 0)
    IN  IF best = 0 THEN None ELSE Some(DOMAIN_KEYWORDS[best].domain)

\* _extract_time_references: list(set(refs)), the distinct years
_extract_time_references(q) == Range(q.years)

\* (mutant) every mention of a year counts as a time reference
analyze_counts_mentions(q) ==
    LET det    == _detect_intent(q)
        intent == det[1]
        topics == _extract_topics(q)
        requires_historical ==
            \/ intent = "trend"
            \/ Len(q.years) >= 2
            \/ \E w \in ChangeWords : w \in q.found
    IN  [ original_query      |-> q.text,
          has_growth          |-> "growth" \in q.found,
          intent              |-> intent,
          intent_confidence   |-> det[2],
          topics              |-> topics,
          time_references     |-> _extract_time_references(q),
          domain_hint         |-> _infer_domain(q, topics),
          requires_historical |-> requires_historical,
          preferred_output    |-> IF requires_historical THEN "story" ELSE "data" ]

\* analyze: the QueryAnalysis of a query
analyze(q) ==
    LET det    == _detect_intent(q)
        intent == det[1]
        topics == _extract_topics(q)
        time_refs == _extract_time_references(q)
        requires_historical ==
            \/ intent = "trend"
            \/ Cardinality(time_refs) >= 2
            \/ \E w \in ChangeWords : w \in q.found
    IN  [ original_query      |-> q.text,
          has_growth          |-> "growth" \in q.found,
          intent              |-> intent,
          intent_confidence   |-> det[2],
          topics              |-> topics,
          time_references     |-> time_refs,
          domain_hint         |-> _infer_domain(q, topics),
          requires_historical |-> requires_historical,
          preferred_output    |-> IF requires_historical THEN "story" ELSE "data" ]

---------------------------------------------------------------------------
(* store.py, retriever.py *)

\* Stable ascending sort of the positions of a sequence of integer keys: the
\* order list.sort gives (positions with equal keys keep their relative order).
InsertPos(perm, keys, x) ==
    LET after == {i \in DOMAIN perm : keys[perm[i]] > keys[x]}
        pos   == IF after = {} THEN Len(perm) + 1
                 ELSE CHOOSE i \in after : \A j \in after : i <= j
    IN  SubSeq(perm, 1, pos - 1) \o <<x>> \o SubSeq(perm, pos, Len(perm))

RECURSIVE SortedPositions(_, _)
SortedPositions(keys, n) ==
    IF n = 0 THEN << >>
    ELSE InsertPos(SortedPositions(keys, n - 1), keys, n)

\* s sorted by keys (keys[i] is the key of s[i])
SortByKey(s, keys) ==
    LET perm == SortedPositions(keys, Len(s))
    IN  [i \in DOMAIN s |-> s[perm[i]]]

\* s[:n]
Take(s, n) == SubSeq(s, 1, Min2(Len(s), n))

\* the elements s[i] with keep[i], in order
RECURSIVE Select(_, _, _)
Select(s, keep, n) ==
    IF n = 0 THEN << >>
    ELSE IF keep[n] THEN Append(Select(s, keep, n - 1), s[n])
         ELSE Select(s, keep, n - 1)

\* Retriever.__init__ defaults
default_results == 10
min_relevance == 30

\* The chunks a store may hold.  distance is the L2 distance ChromaDB reports
\* for the chunk and similarity the cosine similarity the in-memory fallback
\* computes for it (hundredths); hist is DataChunk.has_historical_depth.
K_census == [id |-> "k1", distance |-> 11,  similarity |-> 90,  hist |-> TRUE,
             domain |-> "education", source_name |-> "census"]
K_survey == [id |-> "k2", distance |-> 150, similarity |-> 40,  hist |-> FALSE,
             domain |-> "education", source_name |-> "survey"]
K_ledger == [id |-> "k3", distance |-> 400, similarity |-> -50, hist |-> TRUE,
             domain |-> "economy",   source_name |-> "ledger"]
K_clinic == [id |-> "k4", distance |-> 25,  similarity |-> 80,  hist |-> FALSE,
             domain |-> "health",    source_name |-> "clinic"]

Chunks == {K_census, K_survey, K_ledger, K_clinic}

\* the sequences of distinct chunks of length at most n
RECURSIVE ChunkSeqs(_)
ChunkSeqs(n) ==
    IF n = 0 THEN {<< >>}
    ELSE LET shorter == ChunkSeqs(n - 1)
         IN  shorter \cup {Append(s, k) : s \in {t \in shorter : Len(t) = n - 1},
                                          k \in Chunks} 

\* The knowledge stores an engine may be built on: no store at all, a
\* ChromaDB collection, or the in-memory fallback of _init_store.
Stores ==
    {[kind |-> "none", chunks |-> << >>]}
    \cup {[kind |-> k, chunks |-> s] :
            k \in {"chroma", "memory"},
            s \in {t \in ChunkSeqs(MaxChunks) : \A i, j \in DOMAIN t : i # j => t[i] # t[j]}}

\* _chunk_to_metadata (the fields the retriever reads)
_chunk_to_metadata(chunk) ==
    [ source_name          |-> chunk.source_name,
      domain               |-> chunk.domain,
      has_historical_depth |-> PyStr(chunk.hist) ]

\* _build_where_filter with only a domain filter: Optional[domain]
_build_where_filter(domain) == domain

\* _matches_filter
_matches_filter(metadata, where) == where = None \/ metadata.domain = where[1]

\* _format_results: distance to relevance, dropping results under min_rel
_format_results(found, min_rel) ==
    LET Raw(k) == [ id        |-> k.id,
                    metadata  |-> _chunk_to_metadata(k),
                    relevance |-> 10000 \div (100 + k.distance) ]
        all == [i \in DOMAIN found |-> Raw(found[i])]
        keep == [i \in DOMAIN all |-> ~(all[i].relevance < min_rel)]
    IN  Select(all, keep, Len(all))

\* _memory_search: cosine similarity as relevance, best first, no threshold
_memory_search(mem, n_results, where) ==
    LET match == [i \in DOMAIN mem |-> _matches_filter(_chunk_to_metadata(mem[i]), where)]
        kept == Select(mem, match, Len(mem))
        all == [i \in DOMAIN kept |->
                  [ id        |-> kept[i].id,
                    metadata  |-> _chunk_to_metadata(kept[i]),
                    relevance |-> kept[i].similarity ]]
        \* sort(key=relevance, reverse=True)
        neg == [i \in DOMAIN all |-> 0 - all[i].relevance]
    IN  Take(SortByKey(all, neg), n_results)

\* collection.query: the n_results nearest chunks that match the filter
CollectionQuery(coll, n_results, where) ==
    LET match == [i \in DOMAIN coll |-> _matches_filter(_chunk_to_metadata(coll[i]), where)]
        kept == Select(coll, match, Len(coll))
        dist == [i \in DOMAIN kept |-> kept[i].distance]
    IN  Take(SortByKey(kept, dist), n_results)

\* KnowledgeStore.search when nothing raises
search(st, n_results, domain_filter, min_rel) ==
    LET where == _build_where_filter(domain_filter)
    IN  IF st.kind = "chroma"
        THEN _format_results(CollectionQuery(st.chunks, n_results, where), min_rel)
        ELSE _memory_search(st.chunks, n_results, where)

\* _to_retrieval_result
_to_retrieval_result(raw) ==
    [ chunk_id             |-> raw.id,
      relevance            |-> raw.relevance,
      domain               |-> raw.metadata.domain,
      source               |-> raw.metadata.source_name,
      has_historical_depth |-> (raw.metadata.has_historical_depth = "True") ]

ToResults(raws) == [i \in DOMAIN raws |-> _to_retrieval_result(raws[i])]

\* the second half of Retriever.retrieve: the results of the broader search
\* that have historical depth and are not yet in results are appended
RECURSIVE AddBroader(_, _, _)
AddBroader(results, broader, i) ==
    IF i > Len(broader) THEN results
    ELSE IF broader[i].has_historical_depth /\ broader[i] \notin Range(results)
         THEN AddBroader(Append(results, broader[i]), broader, i + 1)
         ELSE AddBroader(results, broader, i + 1)

\* Retriever.retrieve decides on a broader search
NeedsBroader(require_historical, results) ==
    require_historical /\ ~(\E i \in DOMAIN results : results[i].has_historical_depth)

---------------------------------------------------------------------------
(* reasoning.py: the stages of the pipeline *)

\* DetectedInsight (detector.py) with the defaults of the dataclass for the
\* fields that have one
DetectedInsight(insight_type, summary, metric_name, current_value) ==
    [ insight_type         |-> insight_type,
      summary              |-> summary,
      metric_name          |-> metric_name,
      current_value        |-> current_value,
      previous_value       |-> None,
      change_absolute      |-> None,
      change_percentage    |-> None,
      direction            |-> "stable",
      magnitude            |-> "moderate",
      velocity             |-> "gradual",
      human_impact         |-> "",
      sentiment            |-> "neutral",
      recommended_template |-> "hero_stat",
      confidence           |-> 80,
      data_points          |-> << >>,
      time_range           |-> None ]

---------------------------------------------------------------------------
(* detector.py: InsightDetector *)

\* CHANGE_THRESHOLDS (percent), a class attribute read through self
CHANGE_THRESHOLDS == [small |-> 5, moderate |-> 15, large |-> 30, dramatic |-> 100]

\* an InsightDetector: __init__ sets no attribute, the class ones are all it has
InsightDetector == [CHANGE_THRESHOLDS |-> CHANGE_THRESHOLDS]

\* POSITIVE_METRICS and NEGATIVE_METRICS
POSITIVE_METRICS == {"literacy", "enrollment", "growth", "income", "revenue",
                     "vaccination", "employment", "forest_cover", "life_expectancy"}
NEGATIVE_METRICS == {"dropout", "mortality", "crime", "pollution", "unemployment",
                     "poverty", "disease", "deaths", "decline"}

\* The value of a column in a row.  Numbers of the metric column are carried
\* in hundredths (66.5 is 6650), years as they are.  A text carries in n the
\* number its digits spell, 0 when it spells none.
Num(n) == [kind |-> "num", n |-> n, s |-> ""]
Str(s, n) == [kind |-> "str", n |-> n, s |-> s]
NoneCell == [kind |-> "none", n |-> 0, s |-> ""]
Absent == [kind |-> "missing", n |-> 0, s |-> ""]

\* a row: the columns the data sets of the model have
Row(year, district, literacy) ==
    [year |-> year, district |-> district, literacy |-> literacy]

\* `col in row`
HasKey(row, col) == row[col].kind # "missing"

\* row.get(col, default) and row.get(col)
Get(row, col, default) == IF HasKey(row, col) THEN row[col] ELSE default
GetOrNone(row, col) == Get(row, col, NoneCell)

\* the truth value of a cell: None, 0 and "" are false
Truthy(cell) ==
    \/ cell.kind = "num" /\ cell.n # 0
    \/ cell.kind = "str" /\ cell.s # ""

\* float(cell): the exception it raises, if any, and the value it returns
FloatError(cell) ==
    IF cell.kind = "none" THEN Some("TypeError")
    ELSE IF cell.kind = "str" /\ cell.s # ToString(cell.n) THEN Some("ValueError")
    ELSE None
Float(cell) == IF cell.kind = "str" THEN 100 * cell.n ELSE cell.n

Abs(x) == IF x < 0 THEN -x ELSE x

\* F applied to the value of v, which is computed once
WithValue(v, F(_)) == CHOOSE r \in {F(x) : x \in {v}} : TRUE

\* a / b rounded to the nearest integer, halves to the even one: round()
RoundDiv(a, b) ==
    LET q == Abs(a) \div Abs(b)
        r == Abs(a) % Abs(b)
        m == IF 2 * r < Abs(b) THEN q
             ELSE IF 2 * r > Abs(b) THEN q + 1
             ELSE IF q % 2 = 0 THEN q ELSE q + 1
    IN  IF (a < 0) # (b < 0) THEN -m ELSE m

\* f"{x:.1f}" of the number num / den carried in hundredths (den > 0)
Fmt1Frac(num, den) ==
    LET t == RoundDiv(Abs(num), 10 * den)
    IN  (IF num < 0 /\ t # 0 THEN "-" ELSE "")
            \o ToString(t \div 10) \o "." \o ToString(t % 10)
Fmt1(x) == Fmt1Frac(x, 1)

\* the integer nearest to the square root of p / q (p >= 0, q > 0)
RECURSIVE ISqrtIn(_, _, _)
ISqrtIn(v, lo, hi) ==
    IF lo = hi THEN lo
    ELSE LET m == (lo + hi + 1) \div 2
         IN  IF m * m <= v THEN ISqrtIn(v, m, hi) ELSE ISqrtIn(v, lo, m - 1)
RoundSqrt(p, q) ==
    (ISqrtIn(4 * (p \div q) + (4 * (p % q)) \div q, 0, 46340) + 1) \div 2

RECURSIVE GCD(_, _)
GCD(a, b) == IF b = 0 THEN a ELSE GCD(b, a % b)

\* (mutant) the percentage cut to two decimals instead of rounded
Round2_truncated(p) == (100 * p.num) \div p.den

\* A percentage is carried as the fraction num / den it is computed from.
Pct(part, whole) == [num |-> 100 * part, den |-> whole]
PctGT(p, k) == IF p.den > 0 THEN p.num > k * p.den ELSE p.num < k * p.den
PctLT(p, k) == IF p.den > 0 THEN p.num < k * p.den ELSE p.num > k * p.den
AbsPctLT(p, k) == Abs(p.num) < k * Abs(p.den)
\* round(p, 2), in hundredths of a percent
Round2(p) == RoundDiv(100 * p.num, p.den)
\* f"{abs(p):.1f}"
FmtAbsPct1(p) ==
    LET t == RoundDiv(10 * Abs(p.num), Abs(p.den))
    IN  ToString(t \div 10) \o "." \o ToString(t % 10)

\* f"{x}" of a cell
CellStr(cell) ==
    IF cell.kind = "num" THEN ToString(cell.n)
    ELSE IF cell.kind = "str" THEN cell.s ELSE "None"

\* metric.replace('_', ' ').title() for the metric columns of the model
MetricClean(metric) == IF metric = "literacy" THEN "Literacy" ELSE metric

\* any(p in metric.lower() for p in words), for the metric columns of the model
MetricHasWordOf(metric, words) == metric \in words

\* what a detector hands back: the exception that leaves it, or its insights
Returns(insights) == [raised |-> None, value |-> insights]
Raises(exc) == [raised |-> Some(exc), value |-> << >>]

\* a < b for the keys of sorted(): defined for two numbers and for two texts
\* (texts of digits of one length order as their numbers), TypeError otherwise
Comparable(a, b) == a.kind = b.kind /\ a.kind \in {"num", "str"}

\* sorted(data, key=lambda x: x.get(time_col, 0)) under its bare except: the
\* sort raises TypeError as soon as two keys cannot be compared, and the rows
\* are then taken in the order given
SortedByTime(data, time_col) ==
    LET keys == [i \in DOMAIN data |-> Get(data[i], time_col, Num(0))]
    IN  IF \A i, j \in DOMAIN data : i # j => Comparable(keys[i], keys[j])
        THEN SortByKey(data, [i \in DOMAIN data |-> keys[i].n])
        ELSE data

\* _determine_sentiment
_determine_sentiment(metric, direction) ==
    LET is_positive_metric == MetricHasWordOf(metric, POSITIVE_METRICS)
        is_negative_metric == MetricHasWordOf(metric, NEGATIVE_METRICS)
    IN  IF direction = "up" /\ is_positive_metric THEN "positive"
        ELSE IF direction = "up" /\ is_negative_metric THEN "negative"
        ELSE IF direction = "down" /\ is_positive_metric THEN "negative"
        ELSE IF direction = "down" /\ is_negative_metric THEN "positive"
        ELSE "neutral"

\* _generate_human_impact
_generate_human_impact(metric, direction, magnitude, change_pct) ==
    LET positive == MetricHasWordOf(metric, POSITIVE_METRICS)
        magnitude_word ==
            CASE magnitude = "small"    -> "slightly"
              [] magnitude = "moderate" -> "noticeably"
              [] magnitude = "large"    -> "significantly"
              [] magnitude = "dramatic" -> "dramatically"
              [] OTHER                  -> ""
        direction_word ==
            CASE direction = "up"     -> IF positive THEN "improved" ELSE "increased"
              [] direction = "down"   -> IF positive THEN "declined" ELSE "decreased"
              [] direction = "stable" -> "remained stable"
              [] OTHER                -> "changed"
    IN  MetricClean(metric) \o " has " \o magnitude_word \o " " \o direction_word
            \o " by " \o FmtAbsPct1(change_pct) \o "%"

\* InsightDetector._select_template
detector_select_template(insight_type, magnitude, data_points) ==
    CASE insight_type \in {"growth", "decline"} ->
            IF data_points > 3 THEN "trend_line" ELSE "hero_stat"
      [] insight_type = "comparison"   -> "versus"
      [] insight_type = "ranking"      -> "ranking_bar"
      [] insight_type = "distribution" -> "pie_breakdown"
      [] insight_type = "correlation"  -> "trend_line"
      [] OTHER                         -> "hero_stat"

\* _build_trend_summary
_build_trend_summary(metric, direction, change_pct, time_range) ==
    LET verb == IF direction = "up" THEN "increased"
                ELSE IF direction = "down" THEN "decreased"
                ELSE "remained stable"
    IN  MetricClean(metric) \o " " \o verb \o " by " \o FmtAbsPct1(change_pct)
            \o "% from " \o CellStr(time_range[1]) \o " to " \o CellStr(time_range[2])

\* _detect_trends: at most one growth, decline or stability insight
_detect_trends(self, data, metric_col, time_col) ==
    LET sorted_data == SortedByTime(data, time_col)
        n           == Len(sorted_data)
        first_row   == sorted_data[1]
        last_row    == sorted_data[n]
        first_cell  == Get(first_row, metric_col, Num(0))
        last_cell   == Get(last_row, metric_col, Num(0))
        first_val   == Float(first_cell)
        last_val    == Float(last_cell)
        change_abs  == last_val - first_val
        change_pct  == Pct(change_abs, first_val)
        insight_type == IF PctGT(change_pct, 2) THEN "growth"
                        ELSE IF PctLT(change_pct, -2) THEN "decline"
                        ELSE "stability"
        direction   == IF PctGT(change_pct, 2) THEN "up"
                       ELSE IF PctLT(change_pct, -2) THEN "down"
                       ELSE "stable"
        magnitude   ==
            IF AbsPctLT(change_pct, self.CHANGE_THRESHOLDS.small) THEN "small"
            ELSE IF AbsPctLT(change_pct, self.CHANGE_THRESHOLDS.moderate) THEN "moderate"
            ELSE IF AbsPctLT(change_pct, self.CHANGE_THRESHOLDS.large) THEN "large"
            ELSE "dramatic"
        mid_cell    == Get(sorted_data[(n \div 2) + 1], metric_col, Num(first_val))
        mid_val     == Float(mid_cell)
        first_half_change  == Abs(mid_val - first_val)
        second_half_change == Abs(last_val - mid_val)
        velocity    ==
            IF n >= 3
            THEN IF 2 * second_half_change > 3 * first_half_change THEN "accelerating"
                 ELSE IF 2 * first_half_change > 3 * second_half_change THEN "decelerating"
                 ELSE "steady"
            ELSE "gradual"
        time_range  == <<GetOrNone(first_row, time_col), GetOrNone(last_row, time_col)>>
        insight     ==
            [ DetectedInsight(insight_type,
                              _build_trend_summary(metric_col, direction, change_pct, time_range),
                              metric_col, last_val)
              EXCEPT !.previous_value = Some(first_val),
                     !.change_absolute = Some(change_abs),
                     !.change_percentage = Some(Round2(change_pct)),
                     !.direction = direction,
                     !.magnitude = magnitude,
                     !.velocity = velocity,
                     !.human_impact = _generate_human_impact(metric_col, direction,
                                                             magnitude, change_pct),
                     !.sentiment = _determine_sentiment(metric_col, direction),
                     !.recommended_template =
                         detector_select_template(insight_type, magnitude, n),
                     !.confidence = 85,
                     !.data_points = sorted_data,
                     !.time_range = Some(time_range) ]
    IN  IF n < 2 THEN Returns(<< >>)
        ELSE IF FloatError(first_cell) # None \/ FloatError(last_cell) # None
        THEN Returns(<< >>)
        ELSE IF first_val = 0 THEN Returns(<< >>)
        ELSE IF n >= 3 /\ FloatError(mid_cell) # None
        THEN Raises(FloatError(mid_cell)[1])
        ELSE Returns(<<insight>>)

\* One pass of the loop of _detect_comparisons: group_values, as the list of
\* its items in insertion order, after `row`; or the TypeError of comparing
\* two times.
GroupValuesStep(before, row, metric_col, group_col, time_col) ==
    LET group  == GetOrNone(row, group_col)
        cell   == Get(row, metric_col, Num(0))
        at     == {k \in DOMAIN before.items : before.items[k].group = group}
        time_val == IF time_col = None THEN Num(0) ELSE Get(row, time_col[1], Num(0))
        item   == [group |-> group, value |-> Float(cell), time |-> time_val]
    IN  IF before.raised # None THEN before
        ELSE IF ~Truthy(group) THEN before
        ELSE IF FloatError(cell) # None THEN before
        ELSE IF at = {} THEN [before EXCEPT !.items = Append(@, item)]
        ELSE LET k == CHOOSE x \in at : TRUE
             IN  IF time_col = None
                 THEN [before EXCEPT !.items[k] = item]
                 ELSE IF ~Comparable(time_val, before.items[k].time)
                 THEN [before EXCEPT !.raised = Some("TypeError")]
                 ELSE IF time_val.n > before.items[k].time.n
                 THEN [before EXCEPT !.items[k] = item]
                 ELSE before

\* the loop over rows 1..i
RECURSIVE GroupValues(_, _, _, _, _)
GroupValues(data, metric_col, group_col, time_col, i) ==
    IF i = 0 THEN [raised |-> None, items |-> << >>]
    ELSE WithValue(GroupValues(data, metric_col, group_col, time_col, i - 1),
                   LAMBDA before :
                       GroupValuesStep(before, data[i], metric_col, group_col, time_col))

\* The ranking insight of _detect_comparisons, when there are two groups or
\* more, from the group_values its loop has built
RankingOf(gv, metric_col) ==
    LET group_values  == gv.items
        sorted_groups == SortByKey(group_values,
                            [k \in DOMAIN group_values |-> -group_values[k].value])
        top_group    == sorted_groups[1].group
        top_val      == sorted_groups[1].value
        bottom_group == sorted_groups[Len(sorted_groups)].group
        bottom_val   == sorted_groups[Len(sorted_groups)].value
        gap          == top_val - bottom_val
        insight ==
            [ DetectedInsight("ranking",
                  CellStr(top_group) \o " leads with " \o metric_col \o " at "
                      \o Fmt1(top_val) \o ", while " \o CellStr(bottom_group)
                      \o " trails at " \o Fmt1(bottom_val),
                  metric_col, top_val)
              EXCEPT !.previous_value = Some(bottom_val),
                     !.change_absolute = Some(gap),
                     !.change_percentage =
                         Some(IF bottom_val # 0 THEN Round2(Pct(gap, bottom_val)) ELSE 0),
                     !.direction = "comparison",
                     !.magnitude = IF 5 * gap > (IF bottom_val > 100 THEN bottom_val ELSE 100)
                                   THEN "large" ELSE "moderate",
                     !.human_impact = "Gap between best and worst performers is "
                                          \o Fmt1(gap) \o " points",
                     !.sentiment = "neutral",
                     !.recommended_template = "ranking_bar",
                     !.confidence = 90,
                     !.data_points = [k \in DOMAIN sorted_groups |->
                                         [group |-> sorted_groups[k].group,
                                          value |-> sorted_groups[k].value]] ]
    IN  IF gv.raised # None THEN Raises(gv.raised[1])
        ELSE IF Len(group_values) < 2 THEN Returns(<< >>)
        ELSE Returns(<<insight>>)

\* _detect_comparisons
_detect_comparisons(self, data, metric_col, group_col, time_col) ==
    WithValue(GroupValues(data, metric_col, group_col, time_col, Len(data)),
              LAMBDA gv : RankingOf(gv, metric_col))

\* The values loop of _detect_distribution and _detect_anomalies: the metric
\* values of the rows float() accepts, in row order.
RECURSIVE NumericValues(_, _, _)
NumericValues(data, metric_col, i) ==
    IF i = 0 THEN << >>
    ELSE LET cell == Get(data[i], metric_col, Num(0))
         IN  IF FloatError(cell) # None THEN NumericValues(data, metric_col, i - 1)
             ELSE Append(NumericValues(data, metric_col, i - 1), Float(cell))

RECURSIVE SumSeq(_, _)
SumSeq(values, i) == IF i = 0 THEN 0 ELSE SumSeq(values, i - 1) + values[i]

\* The statistics of a value list, kept exact: with n values of sum S the
\* mean is S / n, twice the median is median2, value i lies dev[i] / n from
\* the mean, and the sample variance is sumsq / (n * n * (n - 1)).
Stats(values) ==
    LET n      == Len(values)
        S      == SumSeq(values, n)
        sorted == SortByKey(values, values)
        dev    == [i \in DOMAIN values |-> n * values[i] - S]
    IN  [ n       |-> n,
          S       |-> S,
          median2 |-> IF n % 2 = 1 THEN 2 * sorted[(n + 1) \div 2]
                      ELSE sorted[n \div 2] + sorted[(n \div 2) + 1],
          dev     |-> dev,
          sumsq   |-> SumSeq([i \in DOMAIN values |-> dev[i] * dev[i]], n) ]

\* statistics.stdev of the values, to the nearest hundredth
Stdev(st) == RoundSqrt(st.sumsq, st.n * st.n * (st.n - 1))

\* The distribution insight of _detect_distribution, from the statistics of
\* the values
DistributionOf(st, metric_col) ==
    LET a      == 2 * st.S - st.n * st.median2     \* 2n (mean - median)
        \* abs((mean - median) / stdev) > 0.5, with stdev > 0
        skewed == st.sumsq > 0 /\ a * a > st.sumsq \div (st.n - 1)
        distribution_type == IF skewed THEN "skewed" ELSE "balanced"
        insight ==
            [ DetectedInsight("distribution",
                  metric_col \o " has a " \o distribution_type
                      \o " distribution with average " \o Fmt1Frac(st.S, st.n)
                      \o " (median: " \o Fmt1Frac(st.median2, 2) \o ")",
                  metric_col, RoundDiv(st.S, st.n))
              EXCEPT !.previous_value = Some(RoundDiv(st.median2, 2)),
                     !.magnitude = "moderate",
                     !.human_impact = "Most values cluster around "
                                          \o Fmt1Frac(st.median2, 2),
                     !.sentiment = "neutral",
                     !.recommended_template = "pie_breakdown",
                     !.confidence = 75,
                     !.data_points = << [ mean   |-> RoundDiv(st.S, st.n),
                                          median |-> RoundDiv(st.median2, 2),
                                          stdev  |-> Stdev(st) ] >> ]
    IN  insight

\* _detect_distribution: Optional[DetectedInsight]
_detect_distribution(self, data, metric_col) ==
    WithValue(NumericValues(data, metric_col, Len(data)),
              LAMBDA values :
                  IF Len(values) < 3 THEN None
                  ELSE WithValue(Stats(values),
                                 LAMBDA st : Some(DistributionOf(st, metric_col))))

\* abs(z_score) > 2 for a value dev / n from the mean
IsOutlier(st, dev) == dev * dev * (st.n - 1) > 4 * st.sumsq

\* f"{abs(z_score):.1f}": the square of z_score is
\* dev * dev * (n - 1) / sumsq, taken here in lowest terms
FmtAbsZ1(st, dev) ==
    LET g == GCD(dev * dev, st.sumsq)
        t == RoundSqrt(100 * ((dev * dev) \div g) * (st.n - 1), st.sumsq \div g)
    IN  ToString(t \div 10) \o "." \o ToString(t % 10)

\* One pass of the outlier loop of _detect_anomalies: the anomalies found
\* after `row`, or the ZeroDivisionError of a change relative to a mean of 0.
OutliersStep(before, row, metric_col, group_col, st) ==
    LET cell   == Get(row, metric_col, Num(0))
        val    == Float(cell)
        dev    == st.n * val - st.S
        group_name == IF group_col = None THEN "This value"
                      ELSE IF HasKey(row, group_col[1])
                      THEN CellStr(row[group_col[1]]) ELSE "This value"
        direction == IF dev > 0 THEN "high" ELSE "low"
        insight ==
          [ DetectedInsight("anomaly",
                group_name \o " shows unusually " \o direction \o " " \o metric_col
                    \o " at " \o Fmt1(val) \o " (average: " \o Fmt1Frac(st.S, st.n) \o ")",
                metric_col, val)
            EXCEPT !.previous_value = Some(RoundDiv(st.S, st.n)),
                   !.change_percentage = Some(Round2(Pct(dev, st.S))),
                   !.direction = direction,
                   !.magnitude = "dramatic",
                   !.human_impact = "This is " \o FmtAbsZ1(st, dev)
                                        \o " standard deviations from normal",
                   !.sentiment = "warning",
                   !.recommended_template = "hero_stat",
                   !.confidence = 70,
                   !.data_points = <<row>> ]
    IN  IF before.raised # None THEN before
        ELSE IF FloatError(cell) # None THEN before
        ELSE IF ~IsOutlier(st, dev) THEN before
        ELSE IF st.S = 0 THEN Raises("ZeroDivisionError")
        ELSE Returns(Append(before.value, insight))

\* the loop over rows 1..i
RECURSIVE Outliers(_, _, _, _, _)
Outliers(data, metric_col, group_col, st, i) ==
    IF i = 0 THEN Returns(<< >>)
    ELSE WithValue(Outliers(data, metric_col, group_col, st, i - 1),
                   LAMBDA before : OutliersStep(before, data[i], metric_col, group_col, st))

\* _detect_anomalies: the first three outliers, in row order
_detect_anomalies(self, data, metric_col, group_col) ==
    WithValue(NumericValues(data, metric_col, Len(data)),
              LAMBDA values :
                  IF Len(values) < 5 THEN Returns(<< >>)
                  ELSE WithValue(Stats(values),
                         LAMBDA st :
                             IF st.sumsq = 0 THEN Returns(<< >>)
                             ELSE WithValue(Outliers(data, metric_col, group_col, st, Len(data)),
                                    LAMBDA found :
                                        IF found.raised # None THEN found
                                        ELSE Returns(Take(found.value, 3)))))

\* detect_from_data: the detectors in turn; the first exception that leaves
\* one of them leaves detect_from_data
RunDetectors(self, data, metric_column, time_column, group_column) ==
    LET run_trends == time_column # None /\ HasKey(data[1], time_column[1])
        run_comparisons == group_column # None /\ HasKey(data[1], group_column[1])
        trends == IF run_trends
                  THEN _detect_trends(self, data, metric_column, time_column[1])
                  ELSE Returns(<< >>)
        comparisons == IF run_comparisons
                       THEN _detect_comparisons(self, data, metric_column,
                                                group_column[1], time_column)
                       ELSE Returns(<< >>)
        dist == IF group_column = None
                THEN _detect_distribution(self, data, metric_column)
                ELSE None
        anomalies == _detect_anomalies(self, data, metric_column, group_column)
    IN  IF trends.raised # None THEN trends
        ELSE IF comparisons.raised # None THEN comparisons
        ELSE IF anomalies.raised # None THEN anomalies
        ELSE Returns(trends.value \o comparisons.value \o dist \o anomalies.value)

\* InsightDetector.detect_from_data: nothing is detected when there is no row
\* or the first row has no metric column
detect_from_data(self, data, metric_column, time_column, group_column) ==
    IF data = << >> THEN Returns(<< >>)
    ELSE IF ~HasKey(data[1], metric_column) THEN Returns(<< >>)
    ELSE RunDetectors(self, data, metric_column, time_column, group_column)

---------------------------------------------------------------------------
(* reasoning.py: the stages of the pipeline, continued *)

\* The DetectedInsight built by _detect_insights for a context item.
PlaceholderInsight(item, analysis) ==
    [ DetectedInsight(IF analysis.has_growth THEN "growth" ELSE "stability",
                      "Data analysis based on query: " \o analysis.original_query,
                      IF analysis.topics # << >> THEN analysis.topics[1] ELSE "metric",
                      0)
      EXCEPT !.confidence = item.relevance ]

\* (mutant) the loop has no break: one insight for every item with
\* historical depth
_detect_insights_every(context_data, analysis) ==
    LET hist == SelectSeq(context_data, LAMBDA item : item.has_historical)
    IN  [i \in DOMAIN hist |-> PlaceholderInsight(hist[i], analysis)]

\* _detect_insights: one insight, for the first item with historical depth
_detect_insights(context_data, analysis) ==
    LET hist == {i \in DOMAIN context_data : context_data[i].has_historical}
    IN  IF hist = {} THEN << >>
        ELSE LET first == CHOOSE i \in hist : \A j \in hist : i <= j
             IN  <<PlaceholderInsight(context_data[first], analysis)>>

\* intent_match of _select_primary_insight
intent_match(intent) ==
    CASE intent = "trend"      -> {"growth", "decline"}
      [] intent = "comparison" -> {"comparison", "ranking"}
      [] intent = "ranking"    -> {"ranking"}
      [] intent = "current"    -> {"stability"}
      [] OTHER                 -> {}

\* (mutant) the score is the confidence alone: no intent gets a boost
score_insight_unboosted(insight, analysis) == insight.confidence

\* score_insight (hundredths)
score_insight(insight, analysis) ==
    insight.confidence
      + (IF insight.insight_type \in intent_match(analysis.intent) THEN 20 ELSE 0)

\* (mutant) the selector hands back the winner with its score written into
\* confidence
_select_primary_insight_scored(insights, analysis) ==
    IF insights = << >> THEN None
    ELSE LET neg == [i \in DOMAIN insights |-> 0 - score_insight(insights[i], analysis)]
             best == SortByKey(insights, neg)[1]
         IN  Some([best EXCEPT !.confidence = score_insight(best, analysis)])

\* _select_primary_insight: Optional[DetectedInsight]
_select_primary_insight(insights, analysis) ==
    IF insights = << >> THEN None
    ELSE LET \* sorted(insights, key=score_insight, reverse=True)
             neg == [i \in DOMAIN insights |-> 0 - score_insight(insights[i], analysis)]
             sorted_insights == SortByKey(insights, neg)
         IN  Some(sorted_insights[1])

\* (mutant) story needs a growth/decline insight with a time range: the trend
\* intent alone is not enough
_decide_output_mode_needs_insight(analysis, insights, force_mode) ==
    IF force_mode # None THEN force_mode[1]
    ELSE IF analysis.requires_historical
            /\ \E i \in DOMAIN insights :
                   /\ insights[i].insight_type \in {"growth", "decline"}
                   /\ insights[i].time_range # None
         THEN "story"
         ELSE "data"

\* (mutant) requires_historical is not consulted
_decide_output_mode_any_history(analysis, insights, force_mode) ==
    IF force_mode # None THEN force_mode[1]
    ELSE IF \/ analysis.intent = "trend"
            \/ \E i \in DOMAIN insights :
                   /\ insights[i].insight_type \in {"growth", "decline"}
                   /\ insights[i].time_range # None
         THEN "story"
         ELSE "data"

\* _decide_output_mode
_decide_output_mode(analysis, insights, force_mode) ==
    IF force_mode # None THEN force_mode[1]
    ELSE LET has_historical_insight ==
                 \E i \in DOMAIN insights :
                     /\ insights[i].insight_type \in {"growth", "decline"}
                     /\ insights[i].time_range # None
             trend_intent == analysis.intent = "trend"
         IN  IF analysis.requires_historical /\ (has_historical_insight \/ trend_intent)
             THEN "story"
             ELSE "data"

\* intent_templates of _select_template
intent_templates(intent) ==
    CASE intent = "trend"      -> "trend_line"
      [] intent = "comparison" -> "versus"
      [] intent = "ranking"    -> "ranking_bar"
      [] intent = "current"    -> "hero_stat"
      [] intent = "breakdown"  -> "pie_breakdown"
      [] OTHER                 -> "hero_stat"

\* (mutant) the primary insight's template is taken before the mode is looked at
_select_template_insight_first(primary_insight, analysis, output_mode) ==
    IF primary_insight # None THEN primary_insight[1].recommended_template
    ELSE IF output_mode = "story" THEN "story_five_frame"
    ELSE intent_templates(analysis.intent)

\* _select_template
_select_template(primary_insight, analysis, output_mode) ==
    IF output_mode = "story" THEN "story_five_frame"
    ELSE IF primary_insight # None THEN primary_insight[1].recommended_template
    ELSE intent_templates(analysis.intent)

RECURSIVE SumConfidence(_, _)
SumConfidence(insights, n) ==
    IF n = 0 THEN 0 ELSE SumConfidence(insights, n - 1) + insights[n].confidence

\* (mutant) the weights of the mean and of the primary insight exchanged
_calculate_confidence_primary_first(context_found, insights, primary_insight) ==
    LET s1 == IF context_found THEN 3000 ELSE 0
        s2 == IF insights # << >>
              THEN (30 * SumConfidence(insights, Len(insights))) \div Len(insights)
              ELSE 0
        s3 == IF primary_insight # None THEN 40 * primary_insight[1].confidence ELSE 0
    IN  Min2(s1 + s2 + s3, 10000)

\* _calculate_confidence (ten-thousandths)
_calculate_confidence(context_found, insights, primary_insight) ==
    LET s1 == IF context_found THEN 3000 ELSE 0
        s2 == IF insights # << >>
              THEN (40 * SumConfidence(insights, Len(insights))) \div Len(insights)
              ELSE 0
        s3 == IF primary_insight # None THEN 30 * primary_insight[1].confidence ELSE 0
    IN  Min2(s1 + s2 + s3, 10000)

---------------------------------------------------------------------------
(* narrator.py *)

\* TEMPLATES.get(insight_type, TEMPLATES[GROWTH]): the key that is used
TemplateKey(insight_type) ==
    IF insight_type \in {"growth", "decline", "comparison", "ranking"}
    THEN insight_type ELSE "growth"

StoryFrame(frame_type, template, key_metric) ==
    [ frame_type |-> frame_type,
      headline   |-> <<template, frame_type \o "_headline">>,
      key_metric |-> key_metric ]

\* _generate_context: the key metric is the previous value when there is one
_generate_context(insight, template) ==
    StoryFrame("context", template, insight.previous_value)

\* _generate_change
_generate_change(insight, template) ==
    StoryFrame("change", template, insight.change_percentage)

\* _generate_evidence formats previous_value and current_value with ":.1f",
\* which raises TypeError on None
EvidenceRaises(insight) == insight.previous_value = None

_generate_evidence(insight, template) ==
    StoryFrame("evidence", template, Some(insight.current_value))

\* _generate_consequence
_generate_consequence(insight, template) ==
    StoryFrame("consequence", template, None)

\* _generate_implication
_generate_implication(insight, template) ==
    StoryFrame("implication", template, None)

\* (mutant) the frames in the order a reader meets the numbers: the evidence
\* before the change
get_frames_evidence_first(self) ==
    << self.context, self.evidence, self.change, self.consequence, self.implication >>

\* Narrative.get_frames
get_frames(self) ==
    << self.context, self.change, self.evidence, self.consequence, self.implication >>

\* Narrative.to_dict: one dict per frame of get_frames(), under "frames"
to_dict(self) ==
    [ domain     |-> self.domain,
      sentiment  |-> self.sentiment,
      frames     |-> [i \in DOMAIN get_frames(self) |->
                        [ type       |-> get_frames(self)[i].frame_type,
                          headline   |-> get_frames(self)[i].headline,
                          key_metric |-> get_frames(self)[i].key_metric ]],
      source     |-> self.source_attribution,
      period     |-> self.time_period,
      confidence |-> self.confidence ]

\* (mutant) the TypeError of the evidence frame is swallowed and no narrative
\* is returned
generate_swallows(insight, domain, source) ==
    [raised |-> None, value |-> None]

\* NarrativeGenerator.generate: either the exception that leaves it or the
\* Narrative it returns
generate(insight, domain, source) ==
    LET template == TemplateKey(insight.insight_type)
    IN  IF EvidenceRaises(insight)
        THEN [raised |-> Some("TypeError"), value |-> None]
        ELSE [raised |-> None,
              value  |-> Some(
                [ domain             |-> domain,
                  sentiment          |-> insight.sentiment,
                  context            |-> _generate_context(insight, template),
                  change             |-> _generate_change(insight, template),
                  evidence           |-> _generate_evidence(insight, template),
                  consequence        |-> _generate_consequence(insight, template),
                  implication        |-> _generate_implication(insight, template),
                  source_attribution |-> source,
                  time_period        |-> insight.time_range,
                  confidence         |-> insight.confidence ])]

---------------------------------------------------------------------------
(* reasoning.py: ReasoningEngine.reason as a state machine *)

VARIABLES
    store,    \* self.knowledge_store of the engine (shared by its calls)
    pc,       \* pc[c]: the stage call c of reason() has reached
    args,     \* args[c]: the arguments of call c
    loc,      \* loc[c]: the local variables of call c
    result,   \* result[c]: Optional[ReasoningResult] returned by call c
    obs,      \* obs[c]: what an observer of call c has seen
    detector, \* the attributes an InsightDetector reads through self
    rows,     \* the row list object the caller passes to detect_from_data
    dcalls,   \* dcalls[d]: call d of detect_from_data
    ncalls    \* ncalls[n]: call n of QueryAnalyzer._normalize

\* the variables of the reasoning engine, and those of the components that
\* are also called on their own (the detector, the analyzer's normalizer)
rvars == <<store, pc, args, loc, result, obs>>
dvars == <<detector, rows, dcalls, ncalls>>
vars == <<store, pc, args, loc, result, obs, detector, rows, dcalls, ncalls>>

Calls == DOMAIN pc

\* force_mode and domain_override as callers pass them
ForceModes == {None, Some("story"), Some("data")}
DomainOverrides == {None, Some("health")}

NoArgs == [query |-> None, force_mode |-> None, domain_override |-> None]

NoLocals ==
    [ analysis        |-> None,
      reasoning_notes |-> << >>,
      results         |-> << >>,
      context_data    |-> << >>,
      sources         |-> << >>,
      context_found   |-> FALSE,
      context_summary |-> "",
      insights        |-> << >>,
      primary_insight |-> None,
      output_mode     |-> "",
      template        |-> "",
      narrative       |-> None ]

NoObs ==
    [ retrieve_calls   |-> 0,        \* awaits of Retriever.retrieve
      search_calls     |-> 0,        \* awaits of KnowledgeStore.search
      events           |-> << >>,    \* how each awaited search ended
      retrieval_failed |-> FALSE,    \* the except clause of _retrieve_context ran
      cancelled        |-> FALSE,    \* the task was cancelled while awaiting
      exception        |-> None ]    \* the exception that left reason()

InitCalls(S, C) ==
    /\ store \in S
    /\ pc = [c \in C |-> "IDLE"]
    /\ args = [c \in C |-> NoArgs]
    /\ loc = [c \in C |-> NoLocals]
    /\ result = [c \in C |-> None]
    /\ obs = [c \in C |-> NoObs]
    /\ detector = InsightDetector
    /\ rows = << >>
    /\ dcalls = << >>
    /\ ncalls = << >>

\* (mutant) the notes are kept in one list of the engine, shared by its calls
AppendNotes_shared(L, c, notes) ==
    [d \in DOMAIN L |-> [L[d] EXCEPT !.reasoning_notes = @ \o notes]]

\* reasoning_notes.append of call c
AppendNotes(L, c, notes) ==
    [L EXCEPT ![c].reasoning_notes = @ \o notes]

\* a deterministic enumeration of a set: list(set(...))
RECURSIVE SetToSeq(_)
SetToSeq(S) ==
    IF S = {} THEN << >>
    ELSE LET x == CHOOSE y \in S : TRUE
         IN  <<x>> \o SetToSeq(S \ {x})

\* _retrieve_context, lines 217-236: the data points and sources of the results
ExtractData(results) ==
    [i \in DOMAIN results |->
        [ relevance      |-> results[i].relevance,
          domain         |-> results[i].domain,
          has_historical |-> results[i].has_historical_depth ]]

ExtractSources(results) == SetToSeq({results[i].source : i \in DOMAIN results})

\* the context summary note of reason(), line 137
ContextSummary(data, sources) ==
    "Found " \o ToString(Len(data)) \o " relevant data points from "
             \o ToString(Len(sources)) \o " sources"

\* (mutant) CancelledError derives from Exception, as before Python 3.8
ExceptExceptionCatches_all(exc) == TRUE

\* `except Exception` catches every exception but those that derive from
\* BaseException only; asyncio.CancelledError is one of these
ExceptExceptionCatches(exc) == exc # "CancelledError"

\* Step 1 of reason(): analyze the query and note intent, domain, historical
Reason(c, q, fm, ov) ==
    /\ pc[c] = "IDLE"
    /\ LET analysis == analyze(q)
       IN  /\ args' = [args EXCEPT ![c] = [query |-> Some(q), force_mode |-> fm,
                                           domain_override |-> ov]]
           /\ loc' = AppendNotes([loc EXCEPT ![c].analysis = Some(analysis)], c,
                        << "Intent detected: " \o analysis.intent,
                           "Domain hint: " \o PyStrOpt(analysis.domain_hint),
                           "Requires historical: " \o PyStr(analysis.requires_historical) >>)
    /\ pc' = [pc EXCEPT ![c] = "ANALYZED"]
    /\ UNCHANGED <<store, result, obs>>

\* _retrieve_context has returned (data, sources): lines 136-138 of reason()
Retrieved(c, data, sources, o) ==
    /\ loc' = AppendNotes([loc EXCEPT ![c].context_data = data,
                                      ![c].sources = sources,
                                      ![c].context_found = Len(data) > 0,
                                      ![c].context_summary = ContextSummary(data, sources)],
                          c, <<ContextSummary(data, sources)>>)
    /\ pc' = [pc EXCEPT ![c] = "RETRIEVED"]
    /\ obs' = [obs EXCEPT ![c] = o]

\* Step 2 without a knowledge store: _retrieve_context returns [], []
RetrieveNoStore(c) ==
    /\ pc[c] = "ANALYZED"
    /\ store.kind = "none"
    /\ Retrieved(c, << >>, << >>, obs[c])
    /\ UNCHANGED <<store, args, result>>

\* Step 2 with a knowledge store: Retriever.retrieve awaits store.search
RetrieveBegin(c) ==
    /\ pc[c] = "ANALYZED"
    /\ store.kind # "none"
    /\ pc' = [pc EXCEPT ![c] = "SEARCH"]
    /\ obs' = [obs EXCEPT ![c].retrieve_calls = @ + 1, ![c].search_calls = @ + 1]
    /\ UNCHANGED <<store, args, loc, result>>

\* domain = domain_override or analysis.domain_hint
SearchDomain(c) ==
    IF args[c].domain_override # None THEN args[c].domain_override
    ELSE loc[c].analysis[1].domain_hint

\* obs[c] after one more awaited search has ended with event ev
Ended(c, ev) == [obs[c] EXCEPT !.events = Append(@, ev)]

\* the first search has returned raws: retrieve either awaits the broader
\* search or returns its context to _retrieve_context
FirstSearchDone(c, raws, ev) ==
    LET results == ToResults(raws)
    IN  IF NeedsBroader(loc[c].analysis[1].requires_historical, results)
        THEN /\ loc' = [loc EXCEPT ![c].results = results]
             /\ pc' = [pc EXCEPT ![c] = "SEARCH_BROADER"]
             /\ obs' = [obs EXCEPT ![c] = [Ended(c, ev) EXCEPT !.search_calls = @ + 1]]
        ELSE Retrieved(c, ExtractData(results), ExtractSources(results), Ended(c, ev))

SearchReturns(c) ==
    /\ pc[c] = "SEARCH"
    /\ FirstSearchDone(c, search(store, default_results, SearchDomain(c), min_relevance), "ok")
    /\ UNCHANGED <<store, args, result>>

\* collection.query raises: search logs the error and returns []
SearchQueryFails(c) ==
    /\ pc[c] = "SEARCH"
    /\ store.kind = "chroma"
    /\ FirstSearchDone(c, << >>, "query_error")
    /\ UNCHANGED <<store, args, result>>

BroaderSearchDone(c, raws, ev) ==
    LET results == AddBroader(loc[c].results, ToResults(raws), 1)
    IN  /\ Retrieved(c, ExtractData(results), ExtractSources(results), Ended(c, ev))
        /\ UNCHANGED <<store, args, result>>

BroaderReturns(c) ==
    /\ pc[c] = "SEARCH_BROADER"
    /\ BroaderSearchDone(c, search(store, default_results * 2, None, min_relevance \div 2), "ok")

BroaderQueryFails(c) ==
    /\ pc[c] = "SEARCH_BROADER"
    /\ store.kind = "chroma"
    /\ BroaderSearchDone(c, << >>, "query_error")

\* (mutant) the except clause returns what the retriever had gathered so far
Thrown_partial(c, exc, o) ==
    IF exc # "CancelledError"
    THEN /\ Retrieved(c, ExtractData(loc[c].results), ExtractSources(loc[c].results),
                      [o EXCEPT !.retrieval_failed = TRUE])
         /\ UNCHANGED <<store, args, result>>
    ELSE /\ pc' = [pc EXCEPT ![c] = "CANCELLED"]
         /\ obs' = [obs EXCEPT ![c] = [o EXCEPT !.exception = Some(exc)]]
         /\ UNCHANGED <<store, args, loc, result>>

\* Exception exc is raised at the awaited search and unwinds retrieve() into
\* the try block of _retrieve_context: the except clause returns [], [], or
\* the exception leaves _retrieve_context and reason().  o is obs[c] with the
\* event recorded.
Thrown(c, exc, o) ==
    IF ExceptExceptionCatches(exc)
    THEN /\ Retrieved(c, << >>, << >>, [o EXCEPT !.retrieval_failed = TRUE])
         /\ UNCHANGED <<store, args, result>>
    ELSE /\ pc' = [pc EXCEPT ![c] = "CANCELLED"]
         /\ obs' = [obs EXCEPT ![c] = [o EXCEPT !.exception = Some(exc)]]
         /\ UNCHANGED <<store, args, loc, result>>

\* store.search raises (the embedder or the in-memory search fails)
SearchRaises(c) ==
    /\ pc[c] \in {"SEARCH", "SEARCH_BROADER"}
    /\ Thrown(c, "RuntimeError", Ended(c, "raise"))

\* the task running reason() is cancelled while the search is pending:
\* CancelledError is thrown into the coroutine at its await
Cancel(c) ==
    /\ pc[c] \in {"SEARCH", "SEARCH_BROADER"}
    /\ Thrown(c, "CancelledError", [Ended(c, "cancel") EXCEPT !.cancelled = TRUE])

\* Step 3
DetectInsights(c) ==
    /\ pc[c] = "RETRIEVED"
    /\ LET insights == _detect_insights(loc[c].context_data, loc[c].analysis[1])
       IN  loc' = AppendNotes([loc EXCEPT ![c].insights = insights], c,
                     <<"Detected " \o ToString(Len(insights)) \o " insights">>)
    /\ pc' = [pc EXCEPT ![c] = "MINED"]
    /\ UNCHANGED <<store, args, result, obs>>

\* Step 4
SelectPrimary(c) ==
    /\ pc[c] = "MINED"
    /\ LET primary == _select_primary_insight(loc[c].insights, loc[c].analysis[1])
       IN  loc' = AppendNotes([loc EXCEPT ![c].primary_insight = primary], c,
                     IF primary # None
                     THEN <<"Primary insight: " \o primary[1].insight_type>>
                     ELSE << >>)
    /\ pc' = [pc EXCEPT ![c] = "SELECTED"]
    /\ UNCHANGED <<store, args, result, obs>>

\* Steps 5 and 6
DecideMode(c) ==
    /\ pc[c] = "SELECTED"
    /\ LET output_mode == _decide_output_mode(loc[c].analysis[1], loc[c].insights,
                                              args[c].force_mode)
           template == _select_template(loc[c].primary_insight, loc[c].analysis[1],
                                        output_mode)
       IN  loc' = AppendNotes([loc EXCEPT ![c].output_mode = output_mode,
                                          ![c].template = template], c,
                     <<"Output mode: " \o output_mode, "Template: " \o template>>)
    /\ pc' = [pc EXCEPT ![c] = "MODE_DECIDED"]
    /\ UNCHANGED <<store, args, result, obs>>

\* the condition of step 7
EntersNarrated(l) == l.output_mode = "story" /\ l.primary_insight # None

\* domain_override or analysis.domain_hint or "general"
NarrativeDomain(a, l) ==
    IF a.domain_override # None THEN a.domain_override[1]
    ELSE IF l.analysis[1].domain_hint # None THEN l.analysis[1].domain_hint[1]
    ELSE "general"

\* sources[0] if sources else "Data Analysis"
NarrativeSource(l) == IF l.sources # << >> THEN l.sources[1] ELSE "Data Analysis"

\* Step 7: the narrator either returns the narrative or raises out of reason()
Narrate(c) ==
    /\ pc[c] = "MODE_DECIDED"
    /\ EntersNarrated(loc[c])
    /\ LET out == generate(loc[c].primary_insight[1],
                           NarrativeDomain(args[c], loc[c]), NarrativeSource(loc[c]))
       IN  IF out.raised # None
           THEN /\ pc' = [pc EXCEPT ![c] = "RAISED"]
                /\ obs' = [obs EXCEPT ![c].exception = out.raised]
                /\ UNCHANGED loc
           ELSE /\ pc' = [pc EXCEPT ![c] = "NARRATED"]
                /\ loc' = [loc EXCEPT ![c].narrative = out.value]
                /\ UNCHANGED obs
    /\ UNCHANGED <<store, args, result>>

\* the ReasoningResult reason() builds from its arguments and locals
ReasoningResult(a, l) ==
    [ query                |-> a.query[1].text,
      query_analysis       |-> l.analysis[1],
      context_found        |-> l.context_found,
      context_summary      |-> l.context_summary,
      sources_used         |-> l.sources,
      insights             |-> l.insights,
      primary_insight      |-> l.primary_insight,
      output_mode          |-> l.output_mode,
      recommended_template |-> l.template,
      narrative            |-> l.narrative,
      overall_confidence   |-> _calculate_confidence(l.context_found, l.insights,
                                                     l.primary_insight),
      reasoning_notes      |-> l.reasoning_notes ]

\* Step 8 and the return of reason()
Finalize(c) ==
    /\ \/ pc[c] = "NARRATED"
       \/ pc[c] = "MODE_DECIDED" /\ ~EntersNarrated(loc[c])
    /\ result' = [result EXCEPT ![c] = Some(ReasoningResult(args[c], loc[c]))]
    /\ pc' = [pc EXCEPT ![c] = "FINALIZED"]
    /\ UNCHANGED <<store, args, loc, obs>>

StepNext ==
    \/ \E c \in 1..NCalls : c \in Calls /\ RetrieveNoStore(c) /\ UNCHANGED dvars
    \/ \E c \in 1..NCalls : c \in Calls /\ RetrieveBegin(c) /\ UNCHANGED dvars
    \/ \E c \in 1..NCalls : c \in Calls /\ SearchReturns(c) /\ UNCHANGED dvars
    \/ \E c \in 1..NCalls : c \in Calls /\ SearchQueryFails(c) /\ UNCHANGED dvars
    \/ \E c \in 1..NCalls : c \in Calls /\ BroaderReturns(c) /\ UNCHANGED dvars
    \/ \E c \in 1..NCalls : c \in Calls /\ BroaderQueryFails(c) /\ UNCHANGED dvars
    \/ \E c \in 1..NCalls : c \in Calls /\ SearchRaises(c) /\ UNCHANGED dvars
    \/ \E c \in 1..NCalls : c \in Calls /\ Cancel(c) /\ UNCHANGED dvars
    \/ \E c \in 1..NCalls : c \in Calls /\ DetectInsights(c) /\ UNCHANGED dvars
    \/ \E c \in 1..NCalls : c \in Calls /\ SelectPrimary(c) /\ UNCHANGED dvars
    \/ \E c \in 1..NCalls : c \in Calls /\ DecideMode(c) /\ UNCHANGED dvars
    \/ \E c \in 1..NCalls : c \in Calls /\ Narrate(c) /\ UNCHANGED dvars
    \/ \E c \in 1..NCalls : c \in Calls /\ Finalize(c) /\ UNCHANGED dvars

\* One reason() call on an engine over any store.
Init == InitCalls(Stores, {1})

Next ==
    \/ \E c \in 1..NCalls, q \in Queries, fm \in ForceModes, ov \in DomainOverrides :
          c \in Calls /\ Reason(c, q, fm, ov) /\ UNCHANGED dvars
    \/ StepNext

Spec == Init /\ [][Next]_vars

\* NCalls concurrent reason() calls on one engine.
ConcStores == { [kind |-> "none",   chunks |-> << >>],
                [kind |-> "chroma", chunks |-> <<K_survey, K_census>>],
                [kind |-> "memory", chunks |-> <<K_ledger>>] }
ConcQueries == {Q_trend, Q_ranking}
ConcForceModes == {None}

InitConc == InitCalls(ConcStores, 1..NCalls)

NextConc ==
    \/ \E c \in 1..NCalls, q \in ConcQueries, fm \in ConcForceModes :
          c \in Calls /\ Reason(c, q, fm, None) /\ UNCHANGED dvars
    \/ StepNext

SpecConc == InitConc /\ [][NextConc]_vars

---------------------------------------------------------------------------
(* api/routes/query.py: the surfaces that lead to the analyzer *)

\* QueryRequest.query: Field(..., min_length=3, max_length=500)
QueryRequestValid(q) == Len(q.text) >= 3 /\ Len(q.text) <= 500

\* POST /query with a body that fails QueryRequest validation: the framework
\* answers 422 and process_query is not entered
PostQueryRejected(c, q) ==
    /\ pc[c] = "IDLE"
    /\ ~QueryRequestValid(q)
    /\ args' = [args EXCEPT ![c].query = Some(q)]
    /\ pc' = [pc EXCEPT ![c] = "REJECTED"]
    /\ UNCHANGED <<store, loc, result, obs>>

\* POST /query with a valid body: process_query awaits reason() with the
\* query, force_mode and domain_hint of the request
PostQuery(c, q, fm, hint) ==
    /\ QueryRequestValid(q)
    /\ Reason(c, q, fm, hint)

\* GET /query/analyze?q=...: q is a required parameter without a length
\* constraint, and analyze_query passes it to QueryAnalyzer.analyze
GetAnalyze(c, q) ==
    /\ pc[c] = "IDLE"
    /\ args' = [args EXCEPT ![c].query = Some(q)]
    /\ loc' = [loc EXCEPT ![c].analysis = Some(analyze(q))]
    /\ pc' = [pc EXCEPT ![c] = "ANALYSIS_RETURNED"]
    /\ UNCHANGED <<store, result, obs>>

SurfaceQueries ==
    {Q_empty, Q_short, Q_ranking, Q_trend, Q_compare, Q_repeat, Q_exchange, Q_tie, Q_later}

InitSurface == InitCalls(ConcStores, {1})

NextSurface ==
    \/ \E c \in 1..NCalls, q \in SurfaceQueries :
          c \in Calls /\ PostQueryRejected(c, q) /\ UNCHANGED dvars
    \/ \E c \in 1..NCalls, q \in SurfaceQueries, fm \in ForceModes, hint \in DomainOverrides :
          c \in Calls /\ PostQuery(c, q, fm, hint) /\ UNCHANGED dvars
    \/ \E c \in 1..NCalls, q \in SurfaceQueries :
          c \in Calls /\ GetAnalyze(c, q) /\ UNCHANGED dvars
    \/ \E c \in 1..NCalls, q \in SurfaceQueries, fm \in ForceModes, ov \in DomainOverrides :
          c \in Calls /\ Reason(c, q, fm, ov) /\ UNCHANGED dvars
    \/ StepNext

SpecSurface == InitSurface /\ [][NextSurface]_vars

---------------------------------------------------------------------------
(* detector.py: detect_from_data as callers use it *)

\* Sample rows: well-formed ones, and one for each way a row can be malformed.
R_2015 == Row(Num(2015), Str("Warangal", 0), Num(6650))
R_2023 == Row(Num(2023), Str("Hyderabad", 0), Num(8950))
\* a metric that is not a number
R_text == Row(Num(2019), Str("Adilabad", 0), Str("n/a", 0))
\* a year given as text
R_late == Row(Str("2019", 2019), Str("Adilabad", 0), Num(7000))
\* no time column
R_bare == Row(Absent, Str("Adilabad", 0), Num(6000))
\* no metric column, and None for the group
R_gap  == Row(Num(2021), NoneCell, Absent)

SampleRows == {R_2015, R_2023, R_text, R_late, R_bare, R_gap}

RECURSIVE RowLists(_)
RowLists(n) ==
    IF n = 0 THEN {<< >>}
    ELSE LET shorter == RowLists(n - 1)
         IN  shorter \cup {Append(d, r) : d \in {t \in shorter : Len(t) = n - 1},
                                          r \in SampleRows}

\* three yearly literacy rates, without a group column
D_literacy == << Row(Num(2015), Absent, Num(6650)),
                 Row(Num(2019), Absent, Num(7800)),
                 Row(Num(2023), Absent, Num(8950)) >>

\* six districts, one of them more than two standard deviations from the mean
D_outlier == << Row(Num(2020), Str("Adilabad", 0), Num(1000)),
                Row(Num(2020), Str("Khammam", 0), Num(1000)),
                Row(Num(2020), Str("Nizamabad", 0), Num(1000)),
                Row(Num(2020), Str("Karimnagar", 0), Num(1000)),
                Row(Num(2020), Str("Warangal", 0), Num(1000)),
                Row(Num(2020), Str("Hyderabad", 0), Num(2000)) >>

\* the same with a mean of zero
D_balance == << Row(Num(2020), Str("Adilabad", 0), Num(-100)),
                Row(Num(2020), Str("Khammam", 0), Num(-100)),
                Row(Num(2020), Str("Nizamabad", 0), Num(-100)),
                Row(Num(2020), Str("Karimnagar", 0), Num(-100)),
                Row(Num(2020), Str("Warangal", 0), Num(-100)),
                Row(Num(2020), Str("Hyderabad", 0), Num(500)) >>

\* a change of 4.9975 per cent, which rounds to 5.0
D_rounding == << Row(Num(2015), Absent, Num(2001)),
                 Row(Num(2023), Absent, Num(2101)) >>

DataSets == RowLists(MaxRows) \cup {D_literacy, D_outlier, D_balance, D_rounding}

TimeColumns == {None, Some("year")}
GroupColumns == {None, Some("district")}

\* the two calls of a caller that calls twice
DetectCalls == {"first", "second"}

\* (mutant) the trend detector sorts the caller's list in place
RowsAfterDetect_in_place(data, time_column) ==
    IF time_column = None \/ data = << >> THEN data
    ELSE SortedByTime(data, time_column[1])

\* The caller's row list after detect_from_data: sorted() builds a new list,
\* and no detector assigns to a row or to the list.
RowsAfterDetect(data, time_column) == data

\* (mutant) the detector recalibrates its thresholds on the data it has seen
SelfAfterDetect_recalibrated(self) ==
    [self EXCEPT !.CHANGE_THRESHOLDS.large = 100]

\* The attributes of the detector after detect_from_data: none is assigned.
SelfAfterDetect(self) == self

\* detect_from_data on the caller's rows, with the arguments of call d
DetectOutcome(d) ==
    detect_from_data(detector, rows, dcalls[d].metric_column,
                     dcalls[d].time_column, dcalls[d].group_column)

\* call d has ended with `out`
Detected(d, out) ==
    /\ dcalls' = [dcalls EXCEPT ![d].pc = IF out.raised = None THEN "RETURNED" ELSE "RAISED",
                                ![d].data = rows,
                                ![d].outcome = Some(out)]
    /\ rows' = RowsAfterDetect(rows, dcalls[d].time_column)
    /\ detector' = SelfAfterDetect(detector)
    /\ UNCHANGED <<rvars, ncalls>>

\* detect_from_data returns its list of insights
DetectReturns(d) ==
    /\ dcalls[d].pc = "IDLE"
    /\ \E out \in {DetectOutcome(d)} : out.raised = None /\ Detected(d, out)

\* an exception leaves detect_from_data
DetectRaises(d) ==
    /\ dcalls[d].pc = "IDLE"
    /\ \E out \in {DetectOutcome(d)} : out.raised # None /\ Detected(d, out)

InitDetect ==
    /\ store = [kind |-> "none", chunks |-> << >>]
    /\ pc = << >> /\ args = << >> /\ loc = << >> /\ result = << >> /\ obs = << >>
    /\ detector = InsightDetector
    /\ rows \in DataSets
    /\ \E tc \in [DetectCalls -> TimeColumns], gc \in [DetectCalls -> GroupColumns] :
          dcalls = [d \in DetectCalls |->
                      [ pc            |-> "IDLE",
                        metric_column |-> "literacy",
                        time_column   |-> tc[d],
                        group_column  |-> gc[d],
                        data          |-> << >>,
                        outcome       |-> None ]]
    /\ ncalls = << >>

NextDetect ==
    \/ \E d \in DetectCalls : DetectReturns(d)
    \/ \E d \in DetectCalls : DetectRaises(d)

SpecDetect == InitDetect /\ [][NextDetect]_vars

---------------------------------------------------------------------------
(* The stages after mining, from any insight list the Insight Miner hands over *)

\* Insights as the detectors of detector.py build them (values in hundredths),
\* and the placeholder of _detect_insights.
I_growth ==
    [ DetectedInsight("growth", "literacy grew", "literacy", 8950)
      EXCEPT !.previous_value = Some(6650), !.change_absolute = Some(2300),
             !.change_percentage = Some(3459), !.direction = "up",
             !.magnitude = "dramatic", !.velocity = "steady",
             !.sentiment = "positive", !.confidence = 85,
             !.time_range = Some(<<2015, 2023>>) ]
I_decline ==
    [ DetectedInsight("decline", "enrollment fell", "enrollment", 7000)
      EXCEPT !.previous_value = Some(8000), !.change_absolute = Some(-1000),
             !.change_percentage = Some(-1250), !.direction = "down",
             !.sentiment = "negative", !.confidence = 85,
             !.time_range = Some(<<2019, 2023>>) ]
I_stability ==
    [ DetectedInsight("stability", "income flat", "income", 5050)
      EXCEPT !.previous_value = Some(5000), !.change_absolute = Some(50),
             !.change_percentage = Some(100), !.magnitude = "small",
             !.confidence = 85, !.time_range = Some(<<2015, 2023>>) ]
I_ranking ==
    [ DetectedInsight("ranking", "Hyderabad leads", "literacy", 8300)
      EXCEPT !.previous_value = Some(6100), !.change_absolute = Some(2200),
             !.direction = "comparison", !.recommended_template = "ranking_bar",
             !.confidence = 90 ]
I_anomaly ==
    [ DetectedInsight("anomaly", "unusual value", "income", 9900)
      EXCEPT !.previous_value = Some(5000), !.direction = "up",
             !.sentiment = "warning", !.confidence = 70 ]
I_placeholder ==
    PlaceholderInsight([relevance |-> 90], analyze(Q_growth))

SampleInsights == {I_growth, I_decline, I_stability, I_ranking, I_anomaly, I_placeholder}

RECURSIVE InsightLists(_)
InsightLists(n) ==
    IF n = 0 THEN {<< >>}
    ELSE LET shorter == InsightLists(n - 1)
         IN  shorter \cup {Append(s, i) : s \in {t \in shorter : Len(t) = n - 1},
                                          i \in SampleInsights}

InitStages ==
    /\ store = [kind |-> "none", chunks |-> << >>]
    /\ pc = [c \in {1} |-> "MINED"]
    /\ \E q \in Queries, fm \in ForceModes, ins \in InsightLists(MaxInsights),
          found \in BOOLEAN :
          /\ (ins # << >>) => found
          /\ args = [c \in {1} |-> [query |-> Some(q), force_mode |-> fm,
                                    domain_override |-> None]]
          /\ loc = [c \in {1} |-> [NoLocals EXCEPT !.analysis = Some(analyze(q)),
                                                   !.insights = ins,
                                                   !.context_found = found]]
    /\ result = [c \in {1} |-> None]
    /\ obs = [c \in {1} |-> NoObs]
    /\ detector = InsightDetector
    /\ rows = << >>
    /\ dcalls = << >>
    /\ ncalls = << >>

NextStages ==
    \/ \E c \in 1..NCalls : c \in Calls /\ SelectPrimary(c) /\ UNCHANGED dvars
    \/ \E c \in 1..NCalls : c \in Calls /\ DecideMode(c) /\ UNCHANGED dvars
    \/ \E c \in 1..NCalls : c \in Calls /\ Narrate(c) /\ UNCHANGED dvars
    \/ \E c \in 1..NCalls : c \in Calls /\ Finalize(c) /\ UNCHANGED dvars

SpecStages == InitStages /\ [][NextStages]_vars

---------------------------------------------------------------------------
(* The miner's detect_from_data beside the later stages of reason(): each   *)
(* stage works on what the earlier ones handed over.                        *)

\* row lists handed to the miner: in and out of time order, and one on
\* which the trend detector raises
FrameDataSets ==
    { D_literacy, <<R_2023, R_2015>>, <<R_2023, R_late, R_2015>>,
      <<R_2015, R_text, R_2023>> }

FrameQueries == {Q_growth, Q_ranking}

InitFrame ==
    /\ store = [kind |-> "none", chunks |-> << >>]
    /\ pc = [c \in {1} |-> "MINED"]
    /\ \E q \in FrameQueries, fm \in ForceModes, ins \in InsightLists(MaxInsights) :
          /\ args = [c \in {1} |-> [query |-> Some(q), force_mode |-> fm,
                                    domain_override |-> None]]
          /\ loc = [c \in {1} |-> [NoLocals EXCEPT !.analysis = Some(analyze(q)),
                                                   !.insights = ins,
                                                   !.context_found = (ins # << >>)]]
    /\ result = [c \in {1} |-> None]
    /\ obs = [c \in {1} |-> NoObs]
    /\ detector = InsightDetector
    /\ rows \in FrameDataSets
    /\ dcalls = [d \in DetectCalls |->
                    [ pc            |-> "IDLE",
                      metric_column |-> "literacy",
                      time_column   |-> Some("year"),
                      group_column  |-> None,
                      data          |-> << >>,
                      outcome       |-> None ]]
    /\ ncalls = << >>

NextFrame ==
    \/ \E d \in DetectCalls : DetectReturns(d)
    \/ \E d \in DetectCalls : DetectRaises(d)
    \/ \E c \in 1..NCalls : c \in Calls /\ SelectPrimary(c) /\ UNCHANGED dvars
    \/ \E c \in 1..NCalls : c \in Calls /\ DecideMode(c) /\ UNCHANGED dvars
    \/ \E c \in 1..NCalls : c \in Calls /\ Narrate(c) /\ UNCHANGED dvars
    \/ \E c \in 1..NCalls : c \in Calls /\ Finalize(c) /\ UNCHANGED dvars

SpecFrame == InitFrame /\ [][NextFrame]_vars

---------------------------------------------------------------------------
(* analyzer.py: QueryAnalyzer._normalize, on a text given as the sequence   *)
(* of its characters                                                        *)

\* one character of each kind the normalizer tells apart: an upper-case and
\* a lower-case letter, a blank, a punctuation mark and the hyphen
Chars == {"A", "a", " ", ",", "-"}

Texts == UNION {[1..n -> Chars] : n \in 0..MaxText}

\* \s and \w of the regular expressions
IsWhitespace(ch) == ch = " "
IsWord(ch) == ch \in {"A", "a"}

\* query.lower()
str_lower(text) == [i \in DOMAIN text |-> IF text[i] = "A" THEN "a" ELSE text[i]]

RECURSIVE lstrip(_)
lstrip(text) ==
    IF text # << >> /\ IsWhitespace(Head(text)) THEN lstrip(Tail(text)) ELSE text

RECURSIVE rstrip(_)
rstrip(text) ==
    IF text # << >> /\ IsWhitespace(text[Len(text)])
    THEN rstrip(SubSeq(text, 1, Len(text) - 1))
    ELSE text

\* .strip()
str_strip(text) == rstrip(lstrip(text))

\* re.sub(r'\s+', ' ', text): every maximal run of whitespace becomes one blank
RECURSIVE collapse_whitespace(_)
collapse_whitespace(text) ==
    IF text = << >> THEN << >>
    ELSE IF IsWhitespace(Head(text))
         THEN <<" ">> \o collapse_whitespace(lstrip(Tail(text)))
         ELSE <<Head(text)>> \o collapse_whitespace(Tail(text))

\* re.sub(r'[^\w\s\-]', '', text): what is not a word character, whitespace
\* or a hyphen is deleted
remove_punctuation(text) ==
    SelectSeq(text, LAMBDA ch : IsWord(ch) \/ IsWhitespace(ch) \/ ch = "-")

_normalize(query) ==
    remove_punctuation(collapse_whitespace(str_strip(str_lower(query))))

NormalizeCalls == 1..2

\* call n of _normalize returns; the next call is given what it returned
Normalize(n) ==
    /\ ncalls[n].pc = "IDLE"
    /\ ncalls[n].query # None
    /\ \E out \in {_normalize(ncalls[n].query[1])} :
          ncalls' = [m \in NormalizeCalls |->
                       IF m = n THEN [ncalls[m] EXCEPT !.pc = "RETURNED",
                                                       !.normalized = Some(out)]
                       ELSE IF m = n + 1 THEN [ncalls[m] EXCEPT !.query = Some(out)]
                       ELSE ncalls[m]]
    /\ UNCHANGED <<rvars, detector, rows, dcalls>>

InitNormalize ==
    /\ store = [kind |-> "none", chunks |-> << >>]
    /\ pc = << >> /\ args = << >> /\ loc = << >> /\ result = << >> /\ obs = << >>
    /\ detector = InsightDetector
    /\ rows = << >>
    /\ dcalls = << >>
    /\ \E text \in Texts :
          ncalls = [n \in NormalizeCalls |->
                      [ pc         |-> "IDLE",
                        query      |-> IF n = 1 THEN Some(text) ELSE None,
                        normalized |-> None ]]

NextNormalize ==
    \E n \in NormalizeCalls : Normalize(n)

SpecNormalize == InitNormalize /\ [][NextNormalize]_vars

---------------------------------------------------------------------------
(* A reason() call run on its own: the reference for what a call returns *)

\* the locals of reason() when _retrieve_context has returned (data, sources),
\* up to the template decision
RunLocals(a, data, sources) ==
    LET analysis == analyze(a.query[1])
        insights == _detect_insights(data, analysis)
        primary  == _select_primary_insight(insights, analysis)
        mode     == _decide_output_mode(analysis, insights, a.force_mode)
        template == _select_template(primary, analysis, mode)
    IN  [ NoLocals EXCEPT
            !.analysis        = Some(analysis),
            !.context_data    = data,
            !.sources         = sources,
            !.context_found   = Len(data) > 0,
            !.context_summary = ContextSummary(data, sources),
            !.insights        = insights,
            !.primary_insight = primary,
            !.output_mode     = mode,
            !.template        = template,
            !.reasoning_notes =
                << "Intent detected: " \o analysis.intent,
                   "Domain hint: " \o PyStrOpt(analysis.domain_hint),
                   "Requires historical: " \o PyStr(analysis.requires_historical),
                   ContextSummary(data, sources),
                   "Detected " \o ToString(Len(insights)) \o " insights" >>
                \o (IF primary # None
                    THEN <<"Primary insight: " \o primary[1].insight_type>> ELSE << >>)
                \o << "Output mode: " \o mode, "Template: " \o template >> ]

\* what leaves reason(): an exception or a ReasoningResult
RunOutcome(a, data, sources) ==
    LET l == RunLocals(a, data, sources)
    IN  IF EntersNarrated(l)
        THEN LET out == generate(l.primary_insight[1], NarrativeDomain(a, l),
                                 NarrativeSource(l))
             IN  IF out.raised # None
                 THEN [exception |-> out.raised, result |-> None]
                 ELSE [exception |-> None,
                       result |-> Some(ReasoningResult(a, [l EXCEPT !.narrative = out.value]))]
        ELSE [exception |-> None, result |-> Some(ReasoningResult(a, l))]

\* what _retrieve_context returns on store st when the awaited searches end as
\* events tells
RetrieveAlone(st, a, events) ==
    LET analysis == analyze(a.query[1])
        domain   == IF a.domain_override # None THEN a.domain_override
                    ELSE analysis.domain_hint
        Empty    == [cancelled |-> FALSE, data |-> << >>, sources |-> << >>]
        Gone     == [cancelled |-> TRUE, data |-> << >>, sources |-> << >>]
        Of(rs)   == [cancelled |-> FALSE, data |-> ExtractData(rs),
                     sources |-> ExtractSources(rs)]
        first    == ToResults(IF events[1] = "ok"
                              THEN search(st, default_results, domain, min_relevance)
                              ELSE << >>)
        second   == AddBroader(first,
                               ToResults(IF events[2] = "ok"
                                         THEN search(st, default_results * 2, None,
                                                     min_relevance \div 2)
                                         ELSE << >>), 1)
    IN  IF st.kind = "none" THEN Empty
        ELSE IF events[1] = "raise" THEN Empty
        ELSE IF events[1] = "cancel" THEN Gone
        ELSE IF ~NeedsBroader(analysis.requires_historical, first) THEN Of(first)
        ELSE IF events[2] = "raise" THEN Empty
        ELSE IF events[2] = "cancel" THEN Gone
        ELSE Of(second)

AloneOutcome(st, a, events) ==
    LET r == RetrieveAlone(st, a, events)
    IN  IF r.cancelled THEN [exception |-> Some("CancelledError"), result |-> None]
        ELSE RunOutcome(a, r.data, r.sources)

---------------------------------------------------------------------------
(* Claims *)

Returned(c) == result[c] # None
R(c) == result[c][1]
Terminal(c) == pc[c] \in {"FINALIZED", "RAISED", "CANCELLED"}

\* the fields of a ReasoningResult that C7 compares
Essence(r) ==
    <<r.context_found, r.insights, r.primary_insight, r.output_mode,
      r.recommended_template, r.narrative, r.overall_confidence>>

\* C1: in every ReasoningResult returned by reason(), narrative is present
\* iff output_mode is "story" and primary_insight is present.
C1_NarrativeIffStoryAndPrimary ==
    \A c \in Calls :
        Returned(c) =>
            ((R(c).narrative # None)
                <=> (R(c).output_mode = "story" /\ R(c).primary_insight # None))

\* a returned result in story mode whose primary insight was narrated
C1_Witness ==
    \E c \in Calls :
        /\ Returned(c)
        /\ R(c).output_mode = "story"
        /\ R(c).primary_insight # None
        /\ R(c).narrative # None

\* C2: no exception crosses the reason() boundary, whatever the query, the
\* retrieval outcome and the forced mode (a cancellation of the caller's task
\* apart): every call ends FINALIZED with a ReasoningResult.
C2_NoExceptionCrossesReason ==
    \A c \in Calls : obs[c].exception = None \/ obs[c].cancelled

C4_ModeDecision ==
    \A c \in Calls :
        pc[c] \in {"MODE_DECIDED", "NARRATED", "FINALIZED", "RAISED"} =>
            LET a  == loc[c].analysis[1]
                is == loc[c].insights
                fm == args[c].force_mode
            IN  /\ fm = Some("data") => loc[c].output_mode = "data"
                /\ fm = Some("story") => loc[c].output_mode = "story"
                /\ fm = None =>
                     /\ loc[c].output_mode \in {"story", "data"}
                     /\ loc[c].output_mode = "story" <=>
                          /\ a.requires_historical
                          /\ \/ a.intent = "trend"
                             \/ \E i \in DOMAIN is :
                                   /\ is[i].insight_type \in {"growth", "decline"}
                                   /\ is[i].time_range # None

\* data mode forced on a trend query that has a growth insight with a time range
C4_Witness ==
    \E c \in Calls :
        /\ pc[c] = "MODE_DECIDED"
        /\ args[c].force_mode = Some("data")
        /\ loc[c].analysis[1].intent = "trend"
        /\ loc[c].analysis[1].requires_historical
        /\ I_growth \in Range(loc[c].insights)
        /\ loc[c].output_mode = "data"

\* C5: the primary insight of a result is one of its insights, and an empty
\* insight list gives no primary insight and no exception.
C5_PrimaryIsElement ==
    \A c \in Calls :
        /\ loc[c].insights = << >> => pc[c] # "RAISED"
        /\ Returned(c) =>
             /\ R(c).primary_insight # None =>
                  R(c).primary_insight[1] \in Range(R(c).insights)
             /\ R(c).insights = << >> => R(c).primary_insight = None

\* a result whose primary insight is the second of two insights
C5_Witness ==
    \E c \in Calls :
        /\ Returned(c)
        /\ Len(R(c).insights) = 2
        /\ R(c).insights[1] # R(c).insights[2]
        /\ R(c).primary_insight = Some(R(c).insights[2])

\* C6: overall_confidence and the confidence of every insight of a result lie
\* in [0, 1], whatever relevance the store returns.
C6_ConfidenceInUnitInterval ==
    \A c \in Calls :
        Returned(c) =>
            /\ R(c).overall_confidence >= 0
            /\ R(c).overall_confidence <= 10000
            /\ \A i \in DOMAIN R(c).insights :
                   R(c).insights[i].confidence >= 0 /\ R(c).insights[i].confidence <= 100

\* C7: a run whose retrieval raised returns what the same call returns on an
\* empty retrieval (context_found, insights, primary insight, mode, template,
\* narrative, confidence), and a call awaits Retriever.retrieve once, never
\* a second time.
C7_FailureAsEmpty ==
    \A c \in Calls :
        /\ obs[c].retrieve_calls =
             (IF store.kind # "none" /\ pc[c] \notin {"IDLE", "ANALYZED"} THEN 1 ELSE 0)
        /\ (Terminal(c) /\ obs[c].retrieval_failed) =>
             /\ Returned(c)
             /\ RunOutcome(args[c], << >>, << >>).result # None
             /\ Essence(R(c)) = Essence(RunOutcome(args[c], << >>, << >>).result[1])

\* a run whose first search found results and whose broader search raised
C7_Witness ==
    \E c \in Calls :
        /\ Returned(c)
        /\ obs[c].retrieval_failed
        /\ obs[c].events = <<"ok", "raise">>
        /\ loc[c].results # << >>
        /\ obs[c].retrieve_calls = 1
        /\ R(c).context_found = FALSE

\* C8: after a failed retrieval the reasoning notes hold a note that records
\* the failure: a note the same call would not have written on an empty
\* retrieval.
C8_FailureNoted ==
    \A c \in Calls :
        (Returned(c) /\ obs[c].retrieval_failed) =>
            \E i \in DOMAIN R(c).reasoning_notes :
                R(c).reasoning_notes[i]
                    \notin Range(RunLocals(args[c], << >>, << >>).reasoning_notes)

\* C9: whatever the interleaving of the calls of one engine, each call ends
\* as it ends when run alone on the same store with the same search events:
\* the same exception or the same ReasoningResult, notes included.
C9_SameAsAlone ==
    \A c \in Calls :
        Terminal(c) =>
            [exception |-> obs[c].exception, result |-> result[c]]
                = AloneOutcome(store, args[c], obs[c].events)

\* two calls with different queries have both returned
C9_Witness ==
    /\ Calls = 1..NCalls
    /\ \A c \in Calls : Returned(c)
    /\ \E c, d \in Calls :
          /\ args[c].query # args[d].query
          /\ R(c).reasoning_notes # R(d).reasoning_notes

\* C10 as claimed: a call cancelled while its retrieval is pending returns an
\* empty-result ReasoningResult.
C10_CancelGivesEmptyResult ==
    \A c \in Calls :
        obs[c].cancelled =>
            /\ Returned(c)
            /\ R(c).context_found = FALSE
            /\ R(c).insights = << >>

\* C10 as amended: a call cancelled while its retrieval is pending ends with
\* CancelledError leaving reason(): the search never completes, no later
\* stage runs and no ReasoningResult is returned.
C10_CancelPropagates ==
    \A c \in Calls :
        obs[c].cancelled =>
            /\ pc[c] = "CANCELLED"
            /\ obs[c].exception = Some("CancelledError")
            /\ result[c] = None
            /\ Len(loc[c].reasoning_notes) = 3
            /\ obs[c].retrieval_failed = FALSE

\* a call cancelled while the broader search was pending
C10_Witness ==
    \E c \in Calls :
        /\ obs[c].cancelled
        /\ obs[c].events = <<"ok", "cancel">>
        /\ pc[c] = "CANCELLED"

\* C11: a query text of fewer than 3 characters is rejected before
\* QueryAnalyzer.analyze is invoked on it, on every surface that leads to the
\* analyzer (POST /query, GET /query/analyze, reason()): no call holds the
\* analysis of such a text.
C11_ShortQueryNeverAnalyzed ==
    \A c \in Calls :
        (args[c].query # None /\ Len(args[c].query[1].text) < 3)
            => loc[c].analysis = None

(***************************************************************************)
(* Claims about detect_from_data                                           *)
(***************************************************************************)

\* a row list with a malformed row: a metric that is missing or is not a
\* number, or a time or group value that is missing or of another type than
\* its neighbours'
MetricMalformed(data) ==
    \E i \in DOMAIN data : data[i].literacy.kind # "num"

KeyMalformed(data, key) ==
    \E i, j \in DOMAIN data :
        \/ data[i][key].kind \in {"missing", "none"}
        \/ data[i][key].kind # data[j][key].kind

Malformed(data) ==
    MetricMalformed(data) \/ KeyMalformed(data, "year") \/ KeyMalformed(data, "district")

\* C12: whatever malformed rows detect_from_data is given (a non-numeric or
\* missing metric value in the first, a middle or the last row, missing or
\* mixed-type time or group values), no exception leaves it: a call on
\* malformed rows never ends by raising.
C12_MalformedRowsNeverRaise ==
    \A d \in DetectCalls :
        (dcalls[d].pc # "IDLE" /\ Malformed(dcalls[d].data))
            => dcalls[d].pc = "RETURNED"

\* a call of detect_from_data on the three literacy rows of 2015, 2019 and
\* 2023 with the time column "year" and no group column has returned
LiteracyScenario(d) ==
    /\ dcalls[d].pc = "RETURNED"
    /\ dcalls[d].data = D_literacy
    /\ dcalls[d].time_column = Some("year")
    /\ dcalls[d].group_column = None

\* the insight is the growth insight of the scenario
IsLiteracyGrowth(insight) ==
    /\ insight.insight_type = "growth"
    /\ insight.direction = "up"
    /\ insight.change_percentage = Some(3459)
    /\ insight.magnitude = "dramatic"

\* C15 as claimed: on the literacy rows detect_from_data returns exactly one
\* insight, of type growth, direction up, change_percentage 34.59 and
\* magnitude dramatic.
C15_ExactlyOneInsight ==
    \A d \in DetectCalls :
        LiteracyScenario(d) =>
            /\ Len(dcalls[d].outcome[1].value) = 1
            /\ IsLiteracyGrowth(dcalls[d].outcome[1].value[1])

\* C15: on the literacy rows detect_from_data returns two insights: first the
\* growth insight (direction up, change_percentage 34.59, magnitude dramatic)
\* of the trend detector, then the distribution insight that is built
\* whenever no group column is given and three values are numeric.
C15_GrowthThenDistribution ==
    \A d \in DetectCalls :
        LiteracyScenario(d) =>
            LET insights == dcalls[d].outcome[1].value
            IN  /\ Len(insights) = 2
                /\ IsLiteracyGrowth(insights[1])
                /\ insights[2].insight_type = "distribution"
                /\ insights[2].change_percentage = None

\* the scenario's call has returned its insights
C15_Witness ==
    \E d \in DetectCalls :
        LiteracyScenario(d) /\ dcalls[d].outcome[1].value # << >>

\* C16: detect_from_data runs its detectors whenever the metric column
\* exists in at least one row, whatever the position of that row: a call on
\* such rows returns what the detectors find in them.  (On no row, or on rows
\* none of which has the column, it returns the empty list.)
C16_DetectorsRunWhenAnyRowHasMetric ==
    \A d \in DetectCalls :
        dcalls[d].pc = "RETURNED" =>
            IF \E i \in DOMAIN dcalls[d].data :
                  HasKey(dcalls[d].data[i], dcalls[d].metric_column)
            THEN dcalls[d].outcome[1] =
                    RunDetectors(detector, dcalls[d].data, dcalls[d].metric_column,
                                 dcalls[d].time_column, dcalls[d].group_column)
            ELSE dcalls[d].outcome[1] = Returns(<< >>)

Directions == {"up", "down", "stable", "comparison"}
Magnitudes == {"small", "moderate", "large", "dramatic"}
Velocities == {"gradual", "steady", "accelerating", "decelerating"}

\* C17: every insight the detectors create (trend, ranking, distribution,
\* anomaly) has its direction among up, down, stable, comparison, its
\* magnitude among small, moderate, large, dramatic and its velocity among
\* gradual, steady, accelerating, decelerating.
C17_InsightFieldsInRange ==
    \A d \in DetectCalls :
        dcalls[d].pc = "RETURNED" =>
            \A i \in DOMAIN dcalls[d].outcome[1].value :
                LET insight == dcalls[d].outcome[1].value[i]
                IN  /\ insight.direction \in Directions
                    /\ insight.magnitude \in Magnitudes
                    /\ insight.velocity \in Velocities

\* calls d and e have both ended, on identical rows and with the same column
\* arguments
SameDetectCall(d, e) ==
    /\ dcalls[d].pc # "IDLE" /\ dcalls[e].pc # "IDLE"
    /\ dcalls[d].data = dcalls[e].data
    /\ dcalls[d].metric_column = dcalls[e].metric_column
    /\ dcalls[d].time_column = dcalls[e].time_column
    /\ dcalls[d].group_column = dcalls[e].group_column

C13_GenerateIsTotal ==
    \A c \in Calls :
        (loc[c].primary_insight # None /\ pc[c] \in {"NARRATED", "RAISED"})
            => (pc[c] = "NARRATED" /\ loc[c].narrative # None)

\* the frame types of the five-frame story, in order
FrameOrder == << "context", "change", "evidence", "consequence", "implication" >>

\* C14: every Narrative that has been built has exactly five frames, in the
\* order context, change, evidence, consequence, implication, both in
\* get_frames() and under "frames" in to_dict().
C14_FiveFramesInOrder ==
    \A c \in Calls :
        loc[c].narrative # None =>
            LET n == loc[c].narrative[1]
            IN  /\ [i \in DOMAIN get_frames(n) |-> get_frames(n)[i].frame_type] = FrameOrder
                /\ [i \in DOMAIN to_dict(n).frames |-> to_dict(n).frames[i].type] = FrameOrder

\* the narrator has built the narrative of a primary insight
C14_Witness ==
    \E c \in Calls :
        /\ pc[c] = "NARRATED"
        /\ loc[c].narrative # None
        /\ Len(get_frames(loc[c].narrative[1])) = 5

(***************************************************************************)
(* Claims about the analyzer                                               *)
(***************************************************************************)

\* C20: analyze sets requires_historical iff the intent is trend, or at
\* least two distinct time references were extracted, or a word of the change
\* vocabulary occurs in the normalized text; preferred_output is "story" iff
\* requires_historical and "data" otherwise.  "Which district has the highest
\* literacy rate?" gives intent ranking, requires_historical false and
\* preferred_output "data".
C20_RequiresHistorical ==
    \A c \in Calls :
        loc[c].analysis # None =>
            LET a == loc[c].analysis[1]
                q == args[c].query[1]
            IN  /\ a.requires_historical
                      <=> \/ a.intent = "trend"
                          \/ Cardinality(a.time_references) >= 2
                          \/ ChangeWords \cap q.found # {}
                /\ a.preferred_output = (IF a.requires_historical THEN "story" ELSE "data")
                /\ q = Q_ranking =>
                      /\ a.intent = "ranking"
                      /\ ~a.requires_historical
                      /\ a.preferred_output = "data"

\* the ranking question has been analyzed, and so has a text that names the
\* same year twice
C20_Witness ==
    \E c \in Calls :
        /\ loc[c].analysis # None
        /\ args[c].query[1] \in {Q_ranking, Q_repeat}
        /\ loc[c].analysis[1].preferred_output = "data"

\* the position of an intent in the declaration of QueryIntent
Declared(intent) == CHOOSE i \in DOMAIN QueryIntent : QueryIntent[i] = intent

\* C26: intent detection returns the intent with the greatest number of
\* matching patterns, with confidence = matches / number of patterns of that
\* intent, at most 1.0; of several intents with the greatest number the one
\* declared first in QueryIntent wins; when no pattern matches (the empty
\* text included) it returns general with confidence 0.5.
C26_IntentWithMostMatches ==
    \A c \in Calls :
        loc[c].analysis # None =>
            LET a == loc[c].analysis[1]
                m == args[c].query[1].matches
            IN  IF \A i \in DOMAIN m : m[i] = 0
                THEN a.intent = "general" /\ a.intent_confidence = 50
                ELSE /\ a.intent \in DOMAIN m
                     /\ \A i \in DOMAIN m :
                           \/ m[i] < m[a.intent]
                           \/ m[i] = m[a.intent] /\ Declared(a.intent) <= Declared(i)
                     /\ a.intent_confidence * NumPatterns(a.intent)
                          = Min2(100 * m[a.intent], 100 * NumPatterns(a.intent))

\* a text on which two intents match equally often has been analyzed
C26_Witness ==
    \E c \in Calls :
        /\ loc[c].analysis # None
        /\ \E i \in DOMAIN args[c].query[1].matches :
              /\ i # loc[c].analysis[1].intent
              /\ args[c].query[1].matches[i] > 0
              /\ args[c].query[1].matches[i]
                   = args[c].query[1].matches[loc[c].analysis[1].intent]

(***************************************************************************)
(* Claims about the stages of reason()                                     *)
(***************************************************************************)

\* the stage that follows `stage` in a run whose locals are l: SEARCH and
\* SEARCH_BROADER are the awaits inside the retrieval between ANALYZED and
\* RETRIEVED
StageAfter(stage, l) ==
    CASE stage = "IDLE"           -> {"ANALYZED"}
      [] stage = "ANALYZED"       -> {"SEARCH", "RETRIEVED"}
      [] stage = "SEARCH"         -> {"SEARCH_BROADER", "RETRIEVED"}
      [] stage = "SEARCH_BROADER" -> {"RETRIEVED"}
      [] stage = "RETRIEVED"      -> {"MINED"}
      [] stage = "MINED"          -> {"SELECTED"}
      [] stage = "SELECTED"       -> {"MODE_DECIDED"}
      [] stage = "MODE_DECIDED"   -> IF EntersNarrated(l) THEN {"NARRATED"}
                                     ELSE {"FINALIZED"}
      [] stage = "NARRATED"       -> {"FINALIZED"}
      [] OTHER                    -> {}

\* how many of the stages ANALYZED .. MODE_DECIDED a run at `stage` has passed
StageRank(stage) ==
    CASE stage \in {"ANALYZED", "SEARCH", "SEARCH_BROADER"} -> 1
      [] stage = "RETRIEVED"                                  -> 2
      [] stage = "MINED"                                      -> 3
      [] stage = "SELECTED"                                   -> 4
      [] stage \in {"MODE_DECIDED", "NARRATED", "FINALIZED"}  -> 5
      [] OTHER                                                -> 0

\* the notes of the stages passed, in stage order
StageNotes(rank, l) ==
    (IF rank >= 1
     THEN << "Intent detected: " \o l.analysis[1].intent,
             "Domain hint: " \o PyStrOpt(l.analysis[1].domain_hint),
             "Requires historical: " \o PyStr(l.analysis[1].requires_historical) >>
     ELSE << >>)
    \o (IF rank >= 2 THEN <<l.context_summary>> ELSE << >>)
    \o (IF rank >= 3
        THEN <<"Detected " \o ToString(Len(l.insights)) \o " insights">> ELSE << >>)
    \o (IF rank >= 4 /\ l.primary_insight # None
        THEN <<"Primary insight: " \o l.primary_insight[1].insight_type>> ELSE << >>)
    \o (IF rank >= 5
        THEN <<"Output mode: " \o l.output_mode, "Template: " \o l.template>>
        ELSE << >>)

\* C21: every reason() run passes through ANALYZED, RETRIEVED, MINED,
\* SELECTED, MODE_DECIDED, (NARRATED), FINALIZED in this order, none skipped,
\* repeated or reordered; NARRATED follows MODE_DECIDED iff the mode is story
\* and there is a primary insight, and FINALIZED follows otherwise; MINED
\* follows only RETRIEVED, the end of the awaited retrieval; and the
\* reasoning notes are the stage notes in the same order.  (A run whose task
\* the caller cancels while it awaits is abandoned.)
C21_StagesInOrder ==
    [][ \A c \in Calls :
           (pc'[c] # pc[c] /\ pc'[c] # "CANCELLED") =>
               /\ pc'[c] \in StageAfter(pc[c], loc[c])
               /\ loc'[c].reasoning_notes = StageNotes(StageRank(pc'[c]), loc'[c])
      ]_vars

\* the insight types an intent prefers
PreferredTypes(intent) ==
    IF intent = "trend" THEN {"growth", "decline"}
    ELSE IF intent = "comparison" THEN {"comparison", "ranking"}
    ELSE IF intent = "ranking" THEN {"ranking"}
    ELSE IF intent = "current" THEN {"stability"}
    ELSE {}

\* confidence, plus 0.2 for a preferred type (hundredths)
SelectionScore(insight, intent) ==
    IF insight.insight_type \in PreferredTypes(intent)
    THEN insight.confidence + 20 ELSE insight.confidence

\* call c has passed the selection
Selected(c) == pc[c] \in {"SELECTED", "MODE_DECIDED", "NARRATED", "FINALIZED", "RAISED"}

\* C22: the Selector returns the insight with the highest score, the score
\* being confidence + 0.2 when the insight's type is among the types the
\* intent prefers (trend: growth, decline; comparison: comparison, ranking;
\* ranking: ranking; current state: stability) and confidence otherwise;
\* among the insights with the highest score it returns the first of the list.
C22_SelectorPicksFirstHighest ==
    \A c \in Calls :
        (Selected(c) /\ loc[c].insights # << >>) =>
            LET ins == loc[c].insights
                intent == loc[c].analysis[1].intent
            IN  \E i \in DOMAIN ins :
                    /\ loc[c].primary_insight = Some(ins[i])
                    /\ \A j \in DOMAIN ins :
                          SelectionScore(ins[j], intent) <= SelectionScore(ins[i], intent)
                    /\ \A j \in 1..(i - 1) :
                          SelectionScore(ins[j], intent) < SelectionScore(ins[i], intent)

\* the boost has decided a selection: the insight chosen has less confidence
\* than another of the list
C22_Witness ==
    \E c \in Calls :
        /\ Selected(c)
        /\ loc[c].primary_insight # None
        /\ \E j \in DOMAIN loc[c].insights :
              loc[c].insights[j].confidence > loc[c].primary_insight[1].confidence

\* C23: the overall_confidence of a result is computed from that call's own
\* context, insights and primary insight as min(1.0, 0.3 if context was
\* found + 0.4 x the mean confidence of the insights (0 without insights)
\* + 0.3 x the confidence of the primary insight (0 without one)), and it
\* never exceeds that weighted sum.  (Ten-thousandths; n times the weighted
\* sum is compared, n being the number of insights.)
C23_ConfidenceIsWeightedSum ==
    \A c \in Calls :
        Returned(c) =>
            LET r == R(c)
                n == IF r.insights = << >> THEN 1 ELSE Len(r.insights)
                weighted_n ==
                    (IF r.context_found THEN 3000 * n ELSE 0)
                      + 40 * SumConfidence(r.insights, Len(r.insights))
                      + (IF r.primary_insight # None
                         THEN 30 * n * r.primary_insight[1].confidence ELSE 0)
            IN  /\ r.overall_confidence = Min2(10000, weighted_n \div n)
                /\ r.overall_confidence * n <= weighted_n

\* a result whose insights differ in confidence, so that the mean and the
\* primary insight weigh differently
C23_Witness ==
    \E c \in Calls :
        /\ Returned(c)
        /\ Len(R(c).insights) >= 2
        /\ R(c).insights[1].confidence # R(c).insights[2].confidence
        /\ R(c).overall_confidence > 3000

(***************************************************************************)
(* Claims about the trend and ranking detectors                            *)
(***************************************************************************)

TrendTypes == {"growth", "decline", "stability"}

\* the insights of the trend detector among those of a call
TrendInsights(d) ==
    SelectSeq(dcalls[d].outcome[1].value, LAMBDA insight : insight.insight_type \in TrendTypes)

\* call d has returned from rows the trend detector ran on: at least two
\* rows, each with a numeric metric, and a time column whose values are all
\* numbers or all texts, some rows (not the first) possibly without one
TrendCase(d) ==
    LET data == dcalls[d].data
    IN  /\ dcalls[d].pc = "RETURNED"
        /\ dcalls[d].time_column = Some("year")
        /\ Len(data) >= 2
        /\ \A i \in DOMAIN data : data[i].literacy.kind = "num"
        /\ HasKey(data[1], "year")
        /\ \A i \in DOMAIN data : data[i].year.kind \in {data[1].year.kind, "missing"}
        /\ data[1].year.kind \in {"num", "str"}

\* the rows in ascending order of time, rows without a time value first, rows
\* of equal time in the order given
AscendingByTime(data) ==
    SortByKey(data, [i \in DOMAIN data |->
                        IF HasKey(data[i], "year") THEN data[i].year.n ELSE -1])

\* (last - first) / first * 100 > k, and < k, for first # 0
ChangeAbove(first, last, k) ==
    IF first > 0 THEN 100 * (last - first) > k * first
    ELSE 100 * (last - first) < k * first

ChangeBelow(first, last, k) ==
    IF first > 0 THEN 100 * (last - first) < k * first
    ELSE 100 * (last - first) > k * first

\* C24: on at least two rows with a numeric metric and a time column, trend
\* detection returns at most one trend insight, computed from the first and
\* the last row of the rows sorted by time (stable, ascending, rows without a
\* time value first): none when the first value is 0, otherwise one whose
\* change is (last - first) / first * 100 and whose direction is up iff the
\* change is above 2, down iff it is below -2 and stable otherwise.
C24_TrendFromFirstAndLast ==
    \A d \in DetectCalls :
        TrendCase(d) =>
            LET sorted_rows == AscendingByTime(dcalls[d].data)
                first == sorted_rows[1].literacy.n
                last  == sorted_rows[Len(sorted_rows)].literacy.n
                trends == TrendInsights(d)
            IN  IF first = 0 THEN trends = << >>
                ELSE /\ Len(trends) = 1
                     /\ trends[1].previous_value = Some(first)
                     /\ trends[1].current_value = last
                     /\ trends[1].direction =
                           (IF ChangeAbove(first, last, 2) THEN "up"
                            ELSE IF ChangeBelow(first, last, -2) THEN "down"
                            ELSE "stable")

\* the distinct groups of the group column
GroupsOf(data) == {data[i].district.s : i \in DOMAIN data}

\* the rows of group g
RowsOf(data, g) == {i \in DOMAIN data : data[i].district.s = g}

\* call d of detect_from_data, with the group column, has ended on rows that
\* all name their group and carry a numeric metric, with at least two
\* distinct groups, the time values of each group being all numbers or all
\* texts where the row has one
RankingCase(d) ==
    LET data == dcalls[d].data
    IN  /\ dcalls[d].pc # "IDLE"
        /\ dcalls[d].group_column = Some("district")
        /\ \A i \in DOMAIN data :
              data[i].district.kind = "str" /\ data[i].literacy.kind = "num"
        /\ Cardinality(GroupsOf(data)) >= 2
        /\ \A i, j \in DOMAIN data :
              data[i].district.s = data[j].district.s =>
                  \/ "missing" \in {data[i].year.kind, data[j].year.kind}
                  \/ data[i].year.kind = data[j].year.kind /\ data[i].year.kind \in {"num", "str"}

\* the time of row i, a row without a time value being the earliest; without
\* a time column every row of a group may stand for it
TimeKey(d, i) ==
    IF dcalls[d].time_column = None THEN 0
    ELSE IF HasKey(dcalls[d].data[i], "year") THEN dcalls[d].data[i].year.n
    ELSE -1

\* rep[g] is a row of group g at the group's latest time
IsLatestRows(d, rep) ==
    \A g \in DOMAIN rep :
        /\ rep[g] \in RowsOf(dcalls[d].data, g)
        /\ \A j \in RowsOf(dcalls[d].data, g) : TimeKey(d, j) <= TimeKey(d, rep[g])

\* C25: on rows whose group column holds at least two distinct groups,
\* ranking detection yields a ranking insight in which each group stands
\* with its value at its latest time (its only value without a time column),
\* current_value is the greatest and previous_value the least of these
\* values, and change_absolute = top - bottom >= 0.
C25_RankingTopAndBottom ==
    \A d \in DetectCalls :
        RankingCase(d) =>
            /\ dcalls[d].pc = "RETURNED"
            /\ LET data == dcalls[d].data
                   rankings == SelectSeq(dcalls[d].outcome[1].value,
                                         LAMBDA insight : insight.insight_type = "ranking")
               IN  /\ Len(rankings) = 1
                   /\ \E rep \in [GroupsOf(data) -> DOMAIN data] :
                         /\ IsLatestRows(d, rep)
                         /\ \A g \in GroupsOf(data) :
                               /\ data[rep[g]].literacy.n <= rankings[1].current_value
                               /\ data[rep[g]].literacy.n >= rankings[1].previous_value[1]
                         /\ \E g \in GroupsOf(data) :
                               data[rep[g]].literacy.n = rankings[1].current_value
                         /\ \E g \in GroupsOf(data) :
                               data[rep[g]].literacy.n = rankings[1].previous_value[1]
                   /\ rankings[1].change_absolute
                        = Some(rankings[1].current_value - rankings[1].previous_value[1])
                   /\ rankings[1].change_absolute[1] >= 0

---------------------------------------------------------------------------
(***************************************************************************)
(* Claims about the analyzer's normalized text                              *)
(***************************************************************************)

IsUpper(ch) == ch = "A"
IsPunctuation(ch) == ch \in {",", "-"}

\* C27: whatever _normalize returns has no upper-case letter, no punctuation
\* character and no two whitespace characters in a row, and normalizing it
\* again returns it unchanged.
C27_NormalizedIsClean ==
    /\ \A n \in DOMAIN ncalls :
          ncalls[n].pc = "RETURNED" =>
              LET text == ncalls[n].normalized[1]
              IN  /\ \A i \in DOMAIN text :
                        ~IsUpper(text[i]) /\ ~IsPunctuation(text[i])
                  /\ \A i \in 1..(Len(text) - 1) :
                        ~(IsWhitespace(text[i]) /\ IsWhitespace(text[i + 1]))
    /\ \A n \in DOMAIN ncalls :
          (n > 1 /\ ncalls[n].pc = "RETURNED") =>
              ncalls[n].normalized = ncalls[n - 1].normalized

---------------------------------------------------------------------------
(***************************************************************************)
(* Claims about the result of reason()                                      *)
(***************************************************************************)

\* the template the claim gives an intent when there is no primary insight
DefaultTemplate(intent) ==
    IF intent = "trend" THEN "trend_line"
    ELSE IF intent = "comparison" THEN "versus"
    ELSE IF intent = "ranking" THEN "ranking_bar"
    ELSE IF intent = "breakdown" THEN "pie_breakdown"
    ELSE "hero_stat"

\* C28: in every result of reason() called with force_mode absent, "story"
\* or "data", the template is story_five_frame exactly when the mode is
\* story, whether or not a narrative was built; in data mode it is the
\* primary insight's recommended template when there is a primary insight
\* and the default template of the intent otherwise.
C28_TemplateFollowsMode ==
    \A c \in Calls :
        (result[c] # None /\ args[c].force_mode \in ForceModes) =>
            LET r == result[c][1]
            IN  /\ r.output_mode \in {"story", "data"}
                /\ (r.recommended_template = "story_five_frame")
                       <=> (r.output_mode = "story")
                /\ r.output_mode = "data" =>
                       r.recommended_template =
                           IF r.primary_insight # None
                           THEN r.primary_insight[1].recommended_template
                           ELSE DefaultTemplate(r.query_analysis.intent)

\* a story result without a narrative, with the story template
C28_Witness ==
    \E c \in Calls :
        /\ result[c] # None
        /\ result[c][1].output_mode = "story"
        /\ result[c][1].narrative = None
        /\ result[c][1].recommended_template = "story_five_frame"

\* the positions of the retrieved items with historical depth
Historical(context_data) ==
    {i \in DOMAIN context_data : context_data[i].has_historical}

\* C29: in every result of reason(), insights imply that context was found,
\* there is at most one insight, built for the first retrieved item with
\* historical depth, and a primary insight is present exactly when the
\* insight list is not empty.
C29_AtMostOneInsight ==
    \A c \in Calls :
        result[c] # None =>
            LET r == result[c][1]
                hist == Historical(loc[c].context_data)
            IN  /\ (r.insights # << >>) => r.context_found
                /\ Len(r.insights) <= 1
                /\ (r.insights # << >>) <=> (hist # {})
                /\ (r.insights # << >>) =>
                       \E i \in hist :
                           /\ \A j \in hist : i <= j
                           /\ r.insights[1] =
                                  PlaceholderInsight(loc[c].context_data[i],
                                                     r.query_analysis)
                /\ (r.primary_insight # None) <=> (r.insights # << >>)

\* a result with its one insight, drawn from two items with historical depth
C29_Witness ==
    \E c \in Calls :
        /\ result[c] # None
        /\ Len(result[c][1].insights) = 1
        /\ result[c][1].primary_insight = Some(result[c][1].insights[1])
        /\ Cardinality(Historical(loc[c].context_data)) >= 2

---------------------------------------------------------------------------
(***************************************************************************)
(* Claims about the fields of a trend insight                               *)
(***************************************************************************)

\* the magnitude the claim gives a change of p hundredths of a per cent
MagnitudeOf(p) ==
    IF Abs(p) < 500 THEN "small"
    ELSE IF Abs(p) < 1500 THEN "moderate"
    ELSE IF Abs(p) < 3000 THEN "large"
    ELSE "dramatic"

====
